---- MODULE Spec2Model ----
(***************************************************************************)
(* Aggregation, caching and data-quality core of the ru_search package:    *)
(*   src/src/ru_search/cache.py       SearchCache                          *)
(*   src/src/ru_search/aggregator.py  DataQualityAssessor,                 *)
(*                                    MarketDataAggregator                 *)
(*                                                                         *)
(* Time is a discrete clock of seconds.  Scores are integers in hundredths *)
(* (0.4 is 40), ratios are pairs <<numerator, denominator>>, prices are    *)
(* integers, rounded prices are in hundredths.  The interpreter is taken   *)
(* to be Python 3.8 or later: asyncio.CancelledError is a BaseException,   *)
(* which `except Exception` does not catch.                                *)
(***************************************************************************)
EXTENDS Integers, Sequences, FiniteSets, TLC

VARIABLES
    now,      \* time.time(), in seconds
    cache,    \* SearchCache._cache: key -> cache_item, present keys only
    call,     \* the search() or get_trends() call in flight, or the idle record
    queue,    \* ThreadPoolExecutor work queue: unit indices waiting for a worker
    zombies,  \* workers still running the fetch of a cancelled unit
    prev,     \* history: what the search before `call` did (kept under SpecPair)
    arg,      \* argument of the operation applied last (SpecCache, SpecAssess, SpecBundle)
    res,      \* its result
    threads,  \* program counter and local variables of every thread that is
              \* inside a method of SearchCache or of a data source
    lock,     \* holder of the threading.Lock of the object under study, or None
    limiter,  \* rate limiting fields of a data source, and its admissions so far
    closed,   \* the resources of the aggregator that have been released
    _api_available  \* OzonSearch._api_available of the Ozon source

vars == <<now, cache, call, queue, zombies, prev, arg, res,
          threads, lock, limiter, closed, _api_available>>

-----------------------------------------------------------------------------
(* Bounds of the model *)

MaxTime == 3
MaxSources == 2
MaxProducts == 20
MaxUsed == 3
MaxUnits == 3
MaxListed == 2
MaxThreads == 2
MaxAdmitted == 3
MaxDepth == 3
MaxCalls == 2

(* Configuration of the aggregator under study *)

cache_ttl == 2
max_workers == 3

(* Rate limiting of the Wildberries source *)

min_spacing == 2
minute_limit == 30

(* Retries of the Wildberries and Ozon sources *)

max_retries == 5

available_sources == {"wildberries", "ozon", "yandex", "google_trends"}

-----------------------------------------------------------------------------
(* Arithmetic helpers *)

Max(a, b) == IF a >= b THEN a ELSE b
Min(a, b) == IF a <= b THEN a ELSE b

\* n / d cut off after the last kept digit instead of rounded.
TruncDiv(n, d) == n \div d

\* Python's round() of the non-negative ratio n/d to an integer: half to even.
RoundDiv(n, d) ==
    LET q == n \div d
        r == n % d
    IN  IF 2 * r < d THEN q
        ELSE IF 2 * r > d THEN q + 1
        ELSE IF q % 2 = 0 THEN q ELSE q + 1

\* Equality of two ratios <<n, d>>.
RatEq(a, b) == a[1] * b[2] = b[1] * a[2]

RECURSIVE SumSeq(_)
SumSeq(s) == IF s = <<>> THEN 0 ELSE Head(s) + SumSeq(Tail(s))

Range(s) == {s[i] : i \in DOMAIN s}

-----------------------------------------------------------------------------
(* SearchCache (cache.py) *)

None == [none |-> TRUE]

\* The digest of the query lower-cased and stripped of surrounding blanks.
NormalisedDigest(query) == <<"md5", IF query = "Q1 " THEN "q1" ELSE query>>

\* hashlib.md5 of the exact query string: modelled as an injective tagging.
md5(query) == <<"md5", query>>

_make_key(source, query) == <<source, md5(query)>>

\* A get that deletes nothing.
CacheKept(c, source, query, t) == c

\* The store after get(source, query) at time t: an expired item is deleted.
CacheAfterGet(c, source, query, t) ==
    LET key == _make_key(source, query)
    IN  IF key \in DOMAIN c /\ t > c[key].timestamp + cache_ttl
        THEN [k \in DOMAIN c \ {key} |-> c[k]]
        ELSE c

\* get with the expiry test `>=`: an item aged exactly ttl is already gone.
CacheGetStrict(c, source, query, t) ==
    LET key == _make_key(source, query)
    IN  IF key \notin DOMAIN c THEN None
        ELSE IF t >= c[key].timestamp + cache_ttl THEN None
        ELSE c[key].data

\* The value get(source, query) returns at time t.
CacheGet(c, source, query, t) ==
    LET key == _make_key(source, query)
    IN  IF key \notin DOMAIN c THEN None
        ELSE IF t > c[key].timestamp + cache_ttl THEN None
        ELSE c[key].data

\* set that keeps an entry already stored under the key.
CacheSetIfAbsent(c, source, query, data, t) ==
    LET key  == _make_key(source, query)
        item == [timestamp |-> t, data |-> data, source |-> source,
                 query_hash |-> key[2]]
    IN  IF key \in DOMAIN c THEN c
        ELSE [k \in DOMAIN c \cup {key} |-> IF k = key THEN item ELSE c[k]]

\* The store after set(source, query, data) at time t.
CacheSet(c, source, query, data, t) ==
    LET key  == _make_key(source, query)
        item == [timestamp |-> t, data |-> data, source |-> source,
                 query_hash |-> key[2]]
    IN  [k \in DOMAIN c \cup {key} |-> IF k = key THEN item ELSE c[k]]

CacheClear == <<>>

\* A sweep that also removes the items aged exactly ttl.
CacheCleanupStrict(c, t) ==
    LET expired == {k \in DOMAIN c : t >= c[k].timestamp + cache_ttl}
    IN  [k \in DOMAIN c \ expired |-> c[k]]

\* The store after _cleanup_expired() at time t.
CacheCleanup(c, t) ==
    LET expired == {k \in DOMAIN c : t > c[k].timestamp + cache_ttl}
    IN  [k \in DOMAIN c \ expired |-> c[k]]

-----------------------------------------------------------------------------
(* DataQualityAssessor (aggregator.py) *)

\* The failures counted against the successes instead of against all sources.
ErrorRateOverSuccesses(sources_used, errors) ==
    IF Len(sources_used) > Len(errors)
    THEN <<Len(errors), Len(sources_used) - Len(errors)>> ELSE <<0, 1>>

\* len(errors) / len(sources_used) if sources_used else 0.0
ErrorRate(sources_used, errors) ==
    IF Len(sources_used) > 0 THEN <<Len(errors), Len(sources_used)>> ELSE <<0, 1>>

\* sum(hits) / len(cache_hits) if cache_hits else 0.0
CacheUsage(cache_hits) ==
    IF DOMAIN cache_hits # {}
    THEN <<Cardinality({s \in DOMAIN cache_hits : cache_hits[s]}),
           Cardinality(DOMAIN cache_hits)>>
    ELSE <<0, 1>>

_calculate_base_confidence(products, sources_used, errors) ==
    IF Len(products) = 0 THEN 40
    ELSE
      LET er == ErrorRate(sources_used, errors)
          b1 == IF Len(products) < 5 THEN 70 - 10
                ELSE IF Len(products) >= 20 THEN 70 + 10 ELSE 70
          b2 == IF 2 * er[1] > er[2] THEN b1 - 20
                ELSE IF 5 * er[1] > er[2] THEN b1 - 10 ELSE b1
      IN  Max(40, Min(90, b2))

\* data_age is the ratio <<total_age, source_count>> of seconds.
_calculate_freshness_score(data_age) ==
    IF data_age[1] <= 3600 * data_age[2] THEN 100
    ELSE IF data_age[1] <= 6 * 3600 * data_age[2] THEN 90
    ELSE IF data_age[1] <= 24 * 3600 * data_age[2] THEN 70
    ELSE IF data_age[1] <= 168 * 3600 * data_age[2] THEN 50
    ELSE 30

_calculate_reliability_score(sources_used, errors, cache_hits) ==
    IF Len(sources_used) = 0 THEN 50
    ELSE
      LET er == ErrorRate(sources_used, errors)
          cu == CacheUsage(cache_hits)
          r1 == IF 2 * er[1] > er[2] THEN 70 - 30
                ELSE IF 5 * er[1] > er[2] THEN 70 - 10 ELSE 70
          r2 == IF 5 * cu[1] > 4 * cu[2] THEN r1 - 10
                ELSE IF 5 * cu[1] < cu[2] THEN r1 + 10 ELSE r1
      IN  Max(30, Min(100, r2))

\* The weighted sum, in thousandths, without the final clamp.
UnclampedConfidence(base_score, freshness_score, reliability_score) ==
    base_score * 5 + freshness_score * 3 + reliability_score * 2

\* In thousandths: max(0.4, min(0.9, confidence)).
_calculate_confidence_score(base_score, freshness_score, reliability_score) ==
    Max(400, Min(900,
        UnclampedConfidence(base_score, freshness_score, reliability_score)))

\* A product is a record of the attributes of base.Product; an attribute whose
\* value is None is a field the record does not have.
HasPrice(product) == "price" \in DOMAIN product

\* Number of complete products times 100 over the number of products, rounded.
_calculate_completeness_score(products) ==
    IF Len(products) = 0 THEN 0
    ELSE
      LET complete == {i \in DOMAIN products :
                          /\ HasPrice(products[i])
                          /\ products[i].price > 0
                          /\ products[i].title # ""
                          /\ products[i].url # ""
                          /\ Cardinality(DOMAIN products[i].metadata) >= 3}
      IN  RoundDiv(100 * Cardinality(complete), Len(products))

\* quality_grade, the letter _get_quality_grade derives from the unrounded
\* binary float, is not part of the model: at a grade threshold the float can
\* lie below the decimal value the model computes (0.6999999999999998).
\* The texts of the result (disclosure_message, data_age_human,
\* citation_format) are left out.
assess_quality(products, sources_used, errors, cache_hits, data_age) ==
    LET base_score  == _calculate_base_confidence(products, sources_used, errors)
        freshness   == _calculate_freshness_score(data_age)
        reliability == _calculate_reliability_score(sources_used, errors, cache_hits)
        confidence  == _calculate_confidence_score(base_score, freshness, reliability)
    IN  [confidence_score   |-> RoundDiv(confidence, 10),
         freshness_score    |-> freshness,
         reliability_score  |-> reliability,
         completeness_score |-> _calculate_completeness_score(products),
         data_age_seconds   |-> data_age,
         source_coverage    |-> Len(sources_used),
         successful_sources |-> Len(sources_used) - Len(errors),
         error_rate         |-> ErrorRate(sources_used, errors),
         cache_usage        |-> CacheUsage(cache_hits)]

-----------------------------------------------------------------------------
(* MarketDataAggregator._calculate_summary *)

BrandOf(product) ==
    IF "brand" \in DOMAIN product.metadata THEN product.metadata.brand ELSE "Unknown"

\* Keys of brand_counts in insertion order: brands by first occurrence; a
\* product whose brand is empty is skipped (`if brand:`).
RECURSIVE BrandOrder(_, _)
BrandOrder(products, seen) ==
    IF products = <<>> THEN <<>>
    ELSE LET b == BrandOf(Head(products))
         IN  IF b = "" \/ b \in seen THEN BrandOrder(Tail(products), seen)
             ELSE <<b>> \o BrandOrder(Tail(products), seen \cup {b})

BrandCount(products, b) ==
    Cardinality({i \in DOMAIN products : BrandOf(products[i]) = b})

\* sorted(items, key=count, reverse=True): stable, so equal counts keep
\* insertion order.  `items` is a sequence of [brand, count] records.
RECURSIVE InsertByCount(_, _)
InsertByCount(sorted, item) ==
    IF sorted = <<>> THEN <<item>>
    ELSE IF Head(sorted).count >= item.count
         THEN <<Head(sorted)>> \o InsertByCount(Tail(sorted), item)
         ELSE <<item>> \o sorted

RECURSIVE SortByCount(_, _)
SortByCount(items, acc) ==
    IF items = <<>> THEN acc
    ELSE SortByCount(Tail(items), InsertByCount(acc, Head(items)))

MinOf(S) == CHOOSE x \in S : \A y \in S : x <= y
MaxOf(S) == CHOOSE x \in S : \A y \in S : x >= y

\* round(error_rate, 3) as a ratio over 1000.
RoundedErrorRate(sources_used, errors) ==
    LET er == ErrorRate(sources_used, errors)
    IN  <<RoundDiv(1000 * er[1], er[2]), 1000>>

\* The summary of no products with the price range formatted as that of a
\* non-empty list is (line 668).
EmptySummaryFormatted(sources_used, errors) ==
    [total_products     |-> 0,
     average_price      |-> 0,
     min_price          |-> 0,
     max_price          |-> 0,
     total_sources      |-> Len(sources_used),
     successful_sources |-> Len(sources_used) - Len(errors),
     failed_sources     |-> Len(errors),
     unique_products    |-> 0,
     price_range        |-> "0.00 - 0.00",
     error_rate         |-> ErrorRate(sources_used, errors)]

\* Lines 639-651: the summary returned when there are no products.
EmptySummary(sources_used, errors) ==
    [total_products     |-> 0,
     average_price      |-> 0,
     min_price          |-> 0,
     max_price          |-> 0,
     total_sources      |-> Len(sources_used),
     successful_sources |-> Len(sources_used) - Len(errors),
     failed_sources     |-> Len(errors),
     unique_products    |-> 0,
     price_range        |-> "0 - 0",
     error_rate         |-> ErrorRate(sources_used, errors)]

\* An exception that leaves a function instead of a value.
Raised(exception) == [raised |-> exception]

\* sum(prices) of line 665 raises TypeError when the price of some product is
\* None.
_calculate_summary(products, sources_used, errors) ==
    IF Len(products) = 0
    THEN EmptySummary(sources_used, errors)
    ELSE IF \E i \in DOMAIN products : ~HasPrice(products[i])
    THEN Raised("TypeError")
    ELSE
      LET prices == [i \in DOMAIN products |-> products[i].price]
          ids    == {products[i].id : i \in DOMAIN products} \ {""}
          order  == BrandOrder(products, {})
          items  == [i \in DOMAIN order |->
                        [brand |-> order[i], count |-> BrandCount(products, order[i])]]
          ranked == SortByCount(items, <<>>)
      IN  [total_products     |-> Len(products),
           unique_products    |-> Cardinality(ids),
           average_price      |-> RoundDiv(100 * SumSeq(prices), Len(prices)),
           min_price          |-> 100 * MinOf(Range(prices)),
           max_price          |-> 100 * MaxOf(Range(prices)),
           price_range        |-> <<100 * MinOf(Range(prices)), " - ",
                                    100 * MaxOf(Range(prices))>>,
           total_sources      |-> Len(sources_used),
           successful_sources |-> Len(sources_used) - Len(errors),
           failed_sources     |-> Len(errors),
           error_rate         |-> RoundedErrorRate(sources_used, errors),
           top_brands         |-> SubSeq(ranked, 1, Min(5, Len(ranked))),
           brand_diversity    |-> Len(order)]

-----------------------------------------------------------------------------
(* Inputs of MarketDataAggregator.search and get_trends *)

Queries == {"q1"}

\* Names a caller may pass in `sources`: two configured sources and one that
\* is not configured.
ArgNames == {"wildberries", "ozon", "avito"}

SourceLists == UNION {[1..n -> ArgNames] : n \in 0..MaxSources}

Timeouts == {1, 2}

\* What source.search(query) returns when it does not raise: Wildberries
\* lists one product, Ozon finds nothing.
Listing(source, query) ==
    IF source = "wildberries"
    THEN <<[id |-> "wb1", title |-> query, price |-> 10000,
            url |-> "https://wb.ru/p1",
            metadata |-> [brand |-> "Acme", rating |-> 5, reviews_count |-> 7]]>>
    ELSE <<>>

\* What source.get_trends(query) returns when it does not raise: the neutral
\* placeholder of a source without a trends API.
NeutralTrend(source, query) ==
    [query |-> query, trend_score |-> 50, historical_data |-> <<>>]

\* The values a fetch of a call of this kind may return.
FetchResults(kind, source, query) ==
    IF kind = "search" THEN {Listing(source, query)}
    ELSE {NeutralTrend(source, query)}

-----------------------------------------------------------------------------
(* MarketDataAggregator: units of work and result processing *)

\* No thread is inside a method under study, no lock is held, no limiter is
\* in use and nothing has been closed.
Quiet ==
    /\ threads = <<>> /\ lock = None /\ limiter = None /\ closed = {}
    /\ _api_available = TRUE

IdleCall == [status |-> "idle"]

NoPrev == [valid |-> FALSE]

\* A unit is one _search_source or _get_trends_source task.  pc: "queued"
\* (its fetch waits for a worker), "running" (a worker executes the fetch),
\* "returned", "raised", "cancelled".  `value` is what the task returned:
\* the products, or the TrendData.
Unit(source, pc, value, cache_hit, timestamp, fallback, invoked) ==
    [source |-> source, pc |-> pc, products |-> value, cache_hit |-> cache_hit,
     timestamp |-> timestamp, fallback |-> fallback, invoked |-> invoked]

Finished(u) == u.pc \in {"returned", "raised"}

\* The selection of a call made without a `sources` argument (line 431),
\* whatever names were passed.
EverySource(sources) == <<"wildberries", "ozon", "yandex", "google_trends">>

\* The names as passed, configured or not.
UnfilteredSources(sources) == sources

\* sources_to_use = [source for source in sources if source in available_sources]
SourcesToUse(sources) == SelectSeq(sources, LAMBDA s : s \in available_sources)

\* The exception a unit raises, tagged with the name of its source.
UnitFailed(kind, source) ==
    IF kind = "search" THEN <<"Search failed for", source>>
    ELSE <<"Trends search failed for", source>>

\* The exception of the call on timeout.
TimedOut(kind, timeout) ==
    IF kind = "search" THEN <<"Search operation timed out after", timeout, "seconds">>
    ELSE <<"Trends operation timed out after", timeout, "seconds">>

\* The error entries with one entry per failing name only.
RECURSIVE ErrorsOfDistinct(_, _)
ErrorsOfDistinct(kind, units) ==
    IF units = <<>> THEN <<>>
    ELSE IF /\ Head(units).pc = "raised"
            /\ \A i \in DOMAIN Tail(units) :
                  ~(Tail(units)[i].source = Head(units).source
                    /\ Tail(units)[i].pc = "raised")
         THEN <<[source |-> Head(units).source,
                 error  |-> UnitFailed(kind, Head(units).source)]>>
              \o ErrorsOfDistinct(kind, Tail(units))
         ELSE ErrorsOfDistinct(kind, Tail(units))

\* The error entries, in the order of sources_to_use.
RECURSIVE ErrorsOf(_, _)
ErrorsOf(kind, units) ==
    IF units = <<>> THEN <<>>
    ELSE IF Head(units).pc = "raised"
         THEN <<[source |-> Head(units).source,
                 error  |-> UnitFailed(kind, Head(units).source)]>>
              \o ErrorsOf(kind, Tail(units))
         ELSE ErrorsOf(kind, Tail(units))

\* The products of a list whose id is not in `seen` and not earlier in the list.
RECURSIVE DedupById(_, _)
DedupById(products, seen) ==
    IF products = <<>> THEN <<>>
    ELSE IF Head(products).id \in seen THEN DedupById(Tail(products), seen)
         ELSE <<Head(products)>>
              \o DedupById(Tail(products), seen \cup {Head(products).id})

RECURSIVE MergeDistinct(_, _)
MergeDistinct(units, seen) ==
    IF units = <<>> THEN <<>>
    ELSE IF Head(units).pc = "returned"
         THEN LET fresh == DedupById(Head(units).products, seen)
              IN  fresh \o MergeDistinct(Tail(units),
                                         seen \cup {fresh[i].id : i \in DOMAIN fresh})
         ELSE MergeDistinct(Tail(units), seen)

\* The flat list with one product per id.
AllProductsDistinct(units) == MergeDistinct(units, {})

\* all_products.extend(products) for each successful unit, in order.
RECURSIVE AllProducts(_)
AllProducts(units) ==
    IF units = <<>> THEN <<>>
    ELSE IF Head(units).pc = "returned"
         THEN Head(units).products \o AllProducts(Tail(units))
         ELSE AllProducts(Tail(units))

\* The unit whose result is kept under key s: dict assignment, the last wins.
LastUnit(units, s) ==
    units[MaxOf({i \in DOMAIN units : units[i].source = s})]

SourceResultOf(u) ==
    IF u.pc = "raised"
    THEN [products |-> <<>>, error |-> UnitFailed("search", u.source),
          cache_hit |-> FALSE, count |-> 0]
    ELSE [products |-> u.products, cache_hit |-> u.cache_hit,
          count |-> Len(u.products), timestamp |-> u.timestamp]

SourceResults(units) ==
    [s \in {units[i].source : i \in DOMAIN units} |->
        SourceResultOf(LastUnit(units, s))]

CacheHits(units) ==
    [s \in {units[i].source : i \in DOMAIN units} |->
        IF LastUnit(units, s).pc = "raised" THEN FALSE
        ELSE LastUnit(units, s).cache_hit]

\* Sum of f over the finite set S.
RECURSIVE SumOver(_, _)
SumOver(f, S) ==
    IF S = {} THEN 0
    ELSE LET x == CHOOSE y \in S : TRUE
         IN  f[x] + SumOver(f, S \ {x})

\* Mean of current_time - timestamp over the entries that have a timestamp,
\* as the ratio <<total_age, source_count>>.
_calculate_data_age(source_results, current_time) ==
    LET timed == {s \in DOMAIN source_results :
                     "timestamp" \in DOMAIN source_results[s]}
        ages  == [s \in timed |-> current_time - source_results[s].timestamp]
    IN  IF timed # {} THEN <<SumOver(ages, timed), Cardinality(timed)>>
        ELSE <<0, 1>>

\* search, lines 457-517: the bundle built from the finished units at time t
\* (without summary.execution_time and the texts `disclosure`, `citations`).
\* No handler surrounds the calls of lines 494-502: an exception raised by
\* _calculate_summary leaves search.
BuildBundle(query, sources_to_use, units, t) ==
    LET all_products   == AllProducts(units)
        errors         == ErrorsOf("search", units)
        source_results == SourceResults(units)
        cache_hits     == CacheHits(units)
        data_age       == _calculate_data_age(source_results, t)
        summary        == _calculate_summary(all_products, sources_to_use, errors)
    IN  IF "raised" \in DOMAIN summary THEN summary
        ELSE
        [query          |-> query,
         results        |-> all_products,
         summary        |-> summary,
         source_results |-> source_results,
         errors         |-> errors,
         data_quality   |-> assess_quality(all_products, sources_to_use, errors,
                                           cache_hits, data_age),
         timestamp      |-> t]

\* The entry of a source with a score of zero next to the error of a failure.
TrendResultScored(u) ==
    IF u.pc = "raised" THEN [error |-> UnitFailed("trends", u.source),
                             trend_score |-> 0]
    ELSE [trend_score |-> u.products.trend_score,
          historical_data |-> u.products.historical_data,
          query |-> u.products.query]

TrendResultOf(u) ==
    IF u.pc = "raised" THEN [error |-> UnitFailed("trends", u.source)]
    ELSE [trend_score |-> u.products.trend_score,
          historical_data |-> u.products.historical_data,
          query |-> u.products.query]

\* get_trends, lines 747-787.  average_trend_score is in thousandths.
BuildTrends(query, sources_to_use, units, t) ==
    LET trend_results == [s \in {units[i].source : i \in DOMAIN units} |->
                             TrendResultOf(LastUnit(units, s))]
        valid  == {s \in DOMAIN trend_results :
                      "trend_score" \in DOMAIN trend_results[s]}
        scores == [s \in valid |-> trend_results[s].trend_score]
    IN  [query               |-> query,
         trend_results       |-> trend_results,
         average_trend_score |-> IF valid # {}
                                 THEN RoundDiv(10 * SumOver(scores, valid),
                                               Cardinality(valid))
                                 ELSE 0,
         errors              |-> ErrorsOf("trends", units),
         timestamp           |-> t]

-----------------------------------------------------------------------------
(* MarketDataAggregator._search_source and _get_trends_source *)

\* A lookup that never finds anything.
Tier1HitNever(c, source, query, use_cache, t) == FALSE

\* A lookup that is made whatever use_cache says.
Tier1HitAnyway(c, source, query, use_cache, t) ==
    CacheGet(c, source, query, t) # None

\* Lines 543-556: the tier-1 lookup, made only when use_cache is set.
Tier1Hit(c, source, query, use_cache, t) ==
    use_cache /\ CacheGet(c, source, query, t) # None

\* The first steps with a cache hit stamped with the time of the lookup.
RECURSIVE FirstStepsStampedNow(_, _, _, _, _, _)
FirstStepsStampedNow(c, names, query, use_cache, t, busy) ==
    IF names = <<>> THEN <<>>
    ELSE
      LET s == Head(names)
      IN  IF Tier1Hit(c, s, query, use_cache, t)
          THEN LET d == CacheGet(c, s, query, t)
               IN  <<Unit(s, "returned", d.products, TRUE, t, FALSE, FALSE)>>
                   \o FirstStepsStampedNow(c, Tail(names), query, use_cache, t, busy)
          ELSE IF busy < max_workers
               THEN <<Unit(s, "running", <<>>, FALSE, -1, FALSE, TRUE)>>
                    \o FirstStepsStampedNow(c, Tail(names), query, use_cache, t, busy + 1)
               ELSE <<Unit(s, "queued", <<>>, FALSE, -1, FALSE, FALSE)>>
                    \o FirstStepsStampedNow(c, Tail(names), query, use_cache, t, busy)

\* The first step of every task, run by the event loop in creation order at
\* time t: a cache hit returns at once, a miss submits the fetch to the
\* executor, where it starts if fewer than max_workers workers are busy.
RECURSIVE FirstSteps(_, _, _, _, _, _)
FirstSteps(c, names, query, use_cache, t, busy) ==
    IF names = <<>> THEN <<>>
    ELSE
      LET s == Head(names)
      IN  IF Tier1Hit(c, s, query, use_cache, t)
          THEN LET d == CacheGet(c, s, query, t)
               IN  <<Unit(s, "returned", d.products, TRUE, d.timestamp, FALSE, FALSE)>>
                   \o FirstSteps(c, Tail(names), query, use_cache, t, busy)
          ELSE IF busy < max_workers
               THEN <<Unit(s, "running", <<>>, FALSE, -1, FALSE, TRUE)>>
                    \o FirstSteps(c, Tail(names), query, use_cache, t, busy + 1)
               ELSE <<Unit(s, "queued", <<>>, FALSE, -1, FALSE, FALSE)>>
                    \o FirstSteps(c, Tail(names), query, use_cache, t, busy)

\* The store after the tier-1 lookups of all tasks.
RECURSIVE CacheAfterLookups(_, _, _, _)
CacheAfterLookups(c, names, query, t) ==
    IF names = <<>> THEN c
    ELSE CacheAfterLookups(CacheAfterGet(c, Head(names), query, t),
                           Tail(names), query, t)

\* What is remembered of a search that returned, for comparing it with the
\* search that follows it.
Summarise(c) ==
    IF c.status # "returned" \/ c.kind # "search" \/ ~c.use_cache \/ c.cleared
    THEN NoPrev
    ELSE
      LET names == Range(c.sources_to_use)
          mine(s) == {i \in DOMAIN c.units : c.units[i].source = s}
      IN  [valid      |-> TRUE,
           sources    |-> c.sources,
           start_time |-> c.start_time,
           succeeded  |-> {s \in names : \E i \in mine(s) : c.units[i].pc = "returned"},
           fetched_at |-> [s \in names |->
                              MaxOf({-1} \cup {c.units[i].timestamp : i \in
                                  {j \in mine(s) : /\ c.units[j].pc = "returned"
                                                   /\ ~c.units[j].cache_hit}})],
           invoked    |-> [s \in names |->
                              Cardinality({i \in mine(s) : c.units[i].invoked})]]

\* gather without return_exceptions: the first unit that raises fails the call.
SettleFailFast(c, t) ==
    IF \E i \in DOMAIN c.units : c.units[i].pc = "raised"
    THEN [c EXCEPT !.status = "raised",
                   !.error = UnitFailed(c.kind,
                       c.units[CHOOSE i \in DOMAIN c.units : c.units[i].pc = "raised"].source)]
    ELSE IF \A i \in DOMAIN c.units : Finished(c.units[i])
    THEN [c EXCEPT !.status = "returned",
                   !.bundle = IF c.kind = "search"
                              THEN BuildBundle(c.query, c.sources_to_use, c.units, t)
                              ELSE BuildTrends(c.query, c.sources_to_use, c.units, t)]
    ELSE c

\* An exception that left the result processing, None if it built its bundle.
ErrorOf(outcome) == IF "raised" \in DOMAIN outcome THEN outcome ELSE None

\* The call record once every unit has finished: gather is done and the call
\* returns its bundle, or raises what the result processing raised.
Settle(c, t) ==
    IF \A i \in DOMAIN c.units : Finished(c.units[i])
    THEN LET outcome == IF c.kind = "search"
                        THEN BuildBundle(c.query, c.sources_to_use, c.units, t)
                        ELSE BuildTrends(c.query, c.sources_to_use, c.units, t)
         IN  IF ErrorOf(outcome) # None
             THEN [c EXCEPT !.status = "raised", !.error = outcome]
             ELSE [c EXCEPT !.status = "returned", !.bundle = outcome]
    ELSE c

\* The call record at the start of search or get_trends.
NewCall(kind, query, sources, use_cache, timeout, fallback_to_cache, units, t) ==
    [status |-> "waiting", kind |-> kind, query |-> query, sources |-> sources,
     use_cache |-> use_cache, timeout |-> timeout,
     fallback_to_cache |-> fallback_to_cache,
     start_time |-> t, sources_to_use |-> SourcesToUse(sources),
     units |-> units, bundle |-> None, error |-> None, cleared |-> FALSE]

QueuedOf(units) ==
    SelectSeq([i \in DOMAIN units |-> i], LAMBDA i : units[i].pc = "queued")

\* MarketDataAggregator.search, lines 395-449
StartSearch(query, sources, use_cache, timeout, fallback_to_cache) ==
    /\ call.status = "idle"
    /\ LET names == SourcesToUse(sources)
           units == FirstSteps(cache, names, query, use_cache, now, zombies)
       IN  /\ call' = Settle(NewCall("search", query, sources, use_cache, timeout,
                                     fallback_to_cache, units, now), now)
           /\ cache' = IF use_cache THEN CacheAfterLookups(cache, names, query, now)
                       ELSE cache
           /\ queue' = QueuedOf(units)
    /\ UNCHANGED <<now, zombies, prev, arg, res, threads, lock, limiter, closed, _api_available>>

\* MarketDataAggregator.get_trends, lines 700-740: no cache is consulted.
StartTrends(query, sources, timeout) ==
    /\ call.status = "idle"
    /\ LET names == SourcesToUse(sources)
           units == FirstSteps(cache, names, query, FALSE, now, zombies)
       IN  /\ call' = Settle(NewCall("trends", query, sources, FALSE, timeout,
                                     FALSE, units, now), now)
           /\ queue' = QueuedOf(units)
    /\ UNCHANGED <<now, cache, zombies, prev, arg, res, threads, lock, limiter, closed, _api_available>>

\* Every waiting work item starts as soon as one worker is free.
StartAll(units, q) ==
    [i \in DOMAIN units |->
        IF units[i].pc = "queued"
        THEN [units[i] EXCEPT !.pc = "running", !.invoked = TRUE]
        ELSE units[i]]

\* A worker that has become free takes the next work item of the queue.
StartNext(units, q) ==
    IF q = <<>> THEN units
    ELSE [units EXCEPT ![Head(q)].pc = "running", ![Head(q)].invoked = TRUE]

\* Tier 2 without the cache.set of lines 569-576.
FetchOkNoStore(i, value) ==
    LET u  == call.units[i]
        u2 == [u EXCEPT !.pc = "returned", !.products = value,
                        !.cache_hit = FALSE,
                        !.timestamp = IF call.kind = "search" THEN now ELSE -1]
    IN  /\ call' = Settle([call EXCEPT !.units = StartNext([call.units EXCEPT ![i] = u2],
                                                           queue)], now)
        /\ cache' = cache

\* Tier 2 with a cache.set that does not look at use_cache.
FetchOkStored(i, value) ==
    LET u  == call.units[i]
        u2 == [u EXCEPT !.pc = "returned", !.products = value,
                        !.cache_hit = FALSE,
                        !.timestamp = IF call.kind = "search" THEN now ELSE -1]
    IN  /\ call' = Settle([call EXCEPT !.units = StartNext([call.units EXCEPT ![i] = u2],
                                                           queue)], now)
        /\ cache' = CacheSet(cache, u.source, call.query,
                             [products |-> value, timestamp |-> now,
                              query |-> call.query, source |-> u.source], now)

\* The store with the result of every fetch of `units` that returned.
RECURSIVE StoreReturned(_, _, _, _)
StoreReturned(c, units, query, t) ==
    IF units = <<>> THEN c
    ELSE LET u == Head(units)
         IN  StoreReturned(IF u.pc = "returned" /\ ~u.cache_hit
                           THEN CacheSet(c, u.source, query,
                                         [products |-> u.products, timestamp |-> t,
                                          query |-> query, source |-> u.source], t)
                           ELSE c,
                           Tail(units), query, t)

\* Tier 2 with the cache written behind the gather: what the fetches
\* returned is stored only once the call has its bundle.
FetchOkOnReturn(i, value) ==
    LET u  == call.units[i]
        u2 == [u EXCEPT !.pc = "returned", !.products = value,
                        !.cache_hit = FALSE,
                        !.timestamp = IF call.kind = "search" THEN now ELSE -1]
        c2 == Settle([call EXCEPT !.units = StartNext([call.units EXCEPT ![i] = u2],
                                                      queue)], now)
    IN  /\ call' = c2
        /\ cache' = IF call.use_cache /\ c2.status = "returned"
                    THEN StoreReturned(cache, c2.units, call.query, now)
                    ELSE cache

\* Tier 2, lines 562-585 (and 809-815): the fetch returned `value` to unit i.
FetchOk(i, value) ==
    LET u  == call.units[i]
        u2 == [u EXCEPT !.pc = "returned", !.products = value,
                        !.cache_hit = FALSE,
                        !.timestamp = IF call.kind = "search" THEN now ELSE -1]
    IN  /\ call' = Settle([call EXCEPT !.units = StartNext([call.units EXCEPT ![i] = u2],
                                                           queue)], now)
        /\ cache' = IF call.use_cache
                    THEN CacheSet(cache, u.source, call.query,
                                  [products |-> value, timestamp |-> now,
                                   query |-> call.query, source |-> u.source], now)
                    ELSE cache

\* Tier 3 without the fallback lookup: a failed fetch always raises.
FetchRaiseNoFallback(i) ==
    LET u  == call.units[i]
        u2 == [u EXCEPT !.pc = "raised"]
    IN  /\ call' = Settle([call EXCEPT !.units = StartNext([call.units EXCEPT ![i] = u2],
                                                           queue)], now)
        /\ cache' = cache

\* Tier 3 with negative caching: a failed fetch without a usable entry
\* stores an empty payload for its key.
FetchRaiseStored(i) ==
    LET u  == call.units[i]
        d  == CacheGet(cache, u.source, call.query, now)
        u2 == IF call.fallback_to_cache /\ d # None
              THEN [u EXCEPT !.pc = "returned", !.products = d.products,
                             !.cache_hit = TRUE, !.timestamp = d.timestamp,
                             !.fallback = TRUE]
              ELSE [u EXCEPT !.pc = "raised"]
    IN  /\ call' = Settle([call EXCEPT !.units = StartNext([call.units EXCEPT ![i] = u2],
                                                           queue)], now)
        /\ cache' = IF call.fallback_to_cache /\ d # None
                    THEN cache
                    ELSE CacheSet(cache, u.source, call.query,
                                  [products |-> <<>>, timestamp |-> now,
                                   query |-> call.query, source |-> u.source], now)

\* Tier 3, lines 587-606 (and 817-819): the fetch raised in unit i.
FetchRaise(i) ==
    LET u  == call.units[i]
        d  == CacheGet(cache, u.source, call.query, now)
        u2 == IF call.fallback_to_cache /\ d # None
              THEN [u EXCEPT !.pc = "returned", !.products = d.products,
                             !.cache_hit = TRUE, !.timestamp = d.timestamp,
                             !.fallback = TRUE]
              ELSE [u EXCEPT !.pc = "raised"]
    IN  /\ call' = Settle([call EXCEPT !.units = StartNext([call.units EXCEPT ![i] = u2],
                                                           queue)], now)
        /\ cache' = IF call.fallback_to_cache
                    THEN CacheAfterGet(cache, u.source, call.query, now)
                    ELSE cache

\* The fetch of unit i ends in its worker and the task resumes.
FetchReturn(i) ==
    /\ call.status = "waiting"
    /\ i \in DOMAIN call.units
    /\ call.units[i].pc = "running"
    /\ \/ \E value \in FetchResults(call.kind, call.units[i].source, call.query) :
             FetchOk(i, value)
       \/ FetchRaise(i)
    /\ queue' = IF queue = <<>> THEN queue ELSE Tail(queue)
    /\ UNCHANGED <<now, zombies, prev, arg, res, threads, lock, limiter, closed, _api_available>>

\* The result of an abandoned fetch stored all the same.
ZombieWrites(c) ==
    CacheSet(c, "wildberries", "q1",
             [products |-> Listing("wildberries", "q1"), timestamp |-> now,
              query |-> "q1", source |-> "wildberries"], now)

\* What the end of an abandoned fetch does to the store: its task was
\* cancelled at the await, so nothing of _search_source runs after it.
ZombieStore(c) == c

\* A fetch ends in a worker whose unit was cancelled: the result is dropped
\* and the worker takes the next work item.
ZombieReturn ==
    /\ zombies > 0 /\ call.status \in {"idle", "waiting"}
    /\ zombies' = zombies - 1
    /\ call' = IF queue = <<>> THEN call
               ELSE [call EXCEPT !.units = StartNext(call.units, queue)]
    /\ queue' = IF queue = <<>> THEN queue ELSE Tail(queue)
    /\ cache' = ZombieStore(cache)
    /\ UNCHANGED <<now, prev, arg, res, threads, lock, limiter, closed, _api_available>>

\* A timeout that hands back what the finished units delivered.
OnTimeoutPartial(c) ==
    LET done == SelectSeq(c.units, Finished)
    IN  [c EXCEPT !.status = "returned",
                  !.bundle = BuildBundle(c.query, c.sources_to_use, done, now)]

\* A deadline that passes unnoticed: the call goes on waiting.
OnTimeoutIgnored(c) == c

\* Lines 451-455 (and 741-745): wait_for cancels the gather, every
\* unfinished task gets CancelledError at its await, and the call raises.
OnTimeout(c) ==
    [c EXCEPT !.status = "raised",
              !.error = TimedOut(c.kind, c.timeout),
              !.units = [i \in DOMAIN c.units |->
                            IF Finished(c.units[i]) THEN c.units[i]
                            ELSE [c.units[i] EXCEPT !.pc = "cancelled"]]]

\* One second passes; a call still waiting at its deadline times out.
Tick ==
    /\ now < MaxTime /\ call.status \in {"idle", "waiting"}
    /\ now' = now + 1
    /\ IF call.status = "waiting" /\ now + 1 >= call.start_time + call.timeout
       THEN /\ call' = OnTimeout(call)
            /\ zombies' = zombies + Cardinality({i \in DOMAIN call.units :
                                                    call.units[i].pc = "running"})
            /\ queue' = <<>>
       ELSE UNCHANGED <<call, zombies, queue>>
    /\ UNCHANGED <<cache, prev, arg, res, threads, lock, limiter, closed, _api_available>>

\* MarketDataAggregator.clear_cache; with `track` the history notes it.
ClearCache(track) ==
    /\ call.status \in {"idle", "waiting"}
    /\ cache' = CacheClear
    /\ call' = IF call.status = "waiting" /\ track
               THEN [call EXCEPT !.cleared = TRUE] ELSE call
    /\ prev' = IF track THEN NoPrev ELSE prev
    /\ UNCHANGED <<now, queue, zombies, arg, res, threads, lock, limiter, closed, _api_available>>

\* The caller receives the bundle or the exception of the finished call.
Consume(track) ==
    /\ call.status \in {"returned", "raised"}
    /\ call' = IdleCall
    /\ prev' = IF track THEN Summarise(call) ELSE prev
    /\ UNCHANGED <<now, cache, queue, zombies, arg, res, threads, lock, limiter, closed, _api_available>>

Init ==
    /\ now = 0
    /\ cache = <<>>
    /\ call = IdleCall
    /\ queue = <<>>
    /\ zombies = 0
    /\ Quiet
    /\ prev = NoPrev
    /\ arg = None
    /\ res = None

Next ==
    \/ \E query \in Queries, sources \in SourceLists, use_cache \in BOOLEAN,
          timeout \in Timeouts, fallback_to_cache \in BOOLEAN :
          StartSearch(query, sources, use_cache, timeout, fallback_to_cache)
    \/ \E query \in Queries, sources \in SourceLists, timeout \in Timeouts :
          StartTrends(query, sources, timeout)
    \/ \E i \in 1..MaxSources : FetchReturn(i)
    \/ ZombieReturn
    \/ Tick
    \/ ClearCache(FALSE)
    \/ Consume(FALSE)

Spec == Init /\ [][Next]_vars

\* The same system with calls whose deadline lies within the time the model
\* covers, and a clock that does not stop: the timer of wait_for (lines
\* 447-450, 736-739) belongs to the event loop and fires whatever the
\* workers of the pool are doing.  Nothing obliges a fetch to end.
NextTimely ==
    \/ \E query \in Queries, sources \in SourceLists, use_cache \in BOOLEAN,
          timeout \in Timeouts, fallback_to_cache \in BOOLEAN :
          /\ now + timeout <= MaxTime
          /\ StartSearch(query, sources, use_cache, timeout, fallback_to_cache)
    \/ \E query \in Queries, sources \in SourceLists, timeout \in Timeouts :
          /\ now + timeout <= MaxTime
          /\ StartTrends(query, sources, timeout)
    \/ \E i \in 1..MaxSources : FetchReturn(i)
    \/ ZombieReturn
    \/ Tick
    \/ ClearCache(FALSE)
    \/ Consume(FALSE)

SpecTimely == Init /\ [][NextTimely]_vars /\ WF_vars(Tick)

\* The same system with the history of the previous search kept in `prev`.
NextPair ==
    \/ \E query \in Queries, sources \in SourceLists, use_cache \in BOOLEAN,
          timeout \in Timeouts, fallback_to_cache \in BOOLEAN :
          StartSearch(query, sources, use_cache, timeout, fallback_to_cache)
    \/ \E i \in 1..MaxSources : FetchReturn(i)
    \/ ZombieReturn
    \/ Tick
    \/ ClearCache(TRUE)
    \/ Consume(TRUE)

SpecPair == Init /\ [][NextPair]_vars

\* What is remembered of a search that timed out: wait_for cancelled at
\* least one of its tasks.  stored_at[s] is when a fetch of source s that
\* returned before the deadline was stored, -1 if none was.  Any other call
\* leaves what is remembered as it is; a clear_cache forgets it.
SummariseTimedOut(c, p) ==
    IF c.kind = "search" /\ c.status = "raised"
       /\ \E i \in DOMAIN c.units : c.units[i].pc = "cancelled"
    THEN IF c.cleared THEN NoPrev
         ELSE
           LET names == Range(c.sources_to_use)
               mine(s) == {i \in DOMAIN c.units : c.units[i].source = s}
           IN  [valid     |-> TRUE,
                query     |-> c.query,
                sources   |-> c.sources,
                stored_at |-> [s \in names |->
                                 MaxOf({-1} \cup {c.units[i].timestamp : i \in
                                     {j \in mine(s) : /\ c.use_cache
                                                      /\ c.units[j].pc = "returned"
                                                      /\ ~c.units[j].cache_hit}})]]
    ELSE IF c.cleared THEN NoPrev ELSE p

\* The caller receives the bundle or the exception of the finished call.
Receive ==
    /\ call.status \in {"returned", "raised"}
    /\ call' = IdleCall
    /\ prev' = SummariseTimedOut(call, prev)
    /\ UNCHANGED <<now, cache, queue, zombies, arg, res, threads, lock, limiter, closed, _api_available>>

\* The same system with the last search that timed out kept in `prev`.
NextAfterTimeout ==
    \/ \E query \in Queries, sources \in SourceLists, use_cache \in BOOLEAN,
          timeout \in Timeouts, fallback_to_cache \in BOOLEAN :
          StartSearch(query, sources, use_cache, timeout, fallback_to_cache)
    \/ \E i \in 1..MaxSources : FetchReturn(i)
    \/ ZombieReturn
    \/ Tick
    \/ ClearCache(TRUE)
    \/ Receive

SpecAfterTimeout == Init /\ [][NextAfterTimeout]_vars

-----------------------------------------------------------------------------
(* SearchCache used directly: set, get, clear and _cleanup_expired *)

CacheSources == {"wildberries", "ozon"}
CacheQueries == {"q1", "Q1 "}
Payloads == {[products |-> <<>>], [products |-> <<"p">>]}

\* SearchCache.get
Get(source, query) ==
    /\ res' = CacheGet(cache, source, query, now)
    /\ cache' = CacheAfterGet(cache, source, query, now)
    /\ arg' = [op |-> "get", source |-> source, query |-> query]
    /\ UNCHANGED <<now, call, queue, zombies, prev, threads, lock, limiter, closed, _api_available>>

\* SearchCache.set
Set(source, query, data) ==
    /\ cache' = CacheSet(cache, source, query, data, now)
    /\ arg' = [op |-> "set", source |-> source, query |-> query, data |-> data]
    /\ res' = None
    /\ UNCHANGED <<now, call, queue, zombies, prev, threads, lock, limiter, closed, _api_available>>

\* SearchCache.clear
Clear ==
    /\ cache' = CacheClear
    /\ arg' = [op |-> "clear"]
    /\ res' = None
    /\ UNCHANGED <<now, call, queue, zombies, prev, threads, lock, limiter, closed, _api_available>>

\* SearchCache._cleanup_expired
Cleanup ==
    /\ cache' = CacheCleanup(cache, now)
    /\ arg' = [op |-> "cleanup"]
    /\ res' = None
    /\ UNCHANGED <<now, call, queue, zombies, prev, threads, lock, limiter, closed, _api_available>>

\* One second passes.
Elapse ==
    /\ now < MaxTime
    /\ now' = now + 1
    /\ arg' = [op |-> "sleep"]
    /\ res' = None
    /\ UNCHANGED <<cache, call, queue, zombies, prev, threads, lock, limiter, closed, _api_available>>

NextCache ==
    \/ \E source \in CacheSources, query \in CacheQueries : Get(source, query)
    \/ \E source \in CacheSources, query \in CacheQueries, data \in Payloads :
          Set(source, query, data)
    \/ Clear
    \/ Cleanup
    \/ Elapse

SpecCache == Init /\ [][NextCache]_vars

-----------------------------------------------------------------------------
(* A swept cache next to one that is never swept *)

\* `cache` is swept at arbitrary moments; `prev` holds the store of a second
\* SearchCache that receives the same set, get and clear calls at the same
\* times and is never swept, with the result of its last get.
Twin(store, result) == [store |-> store, result |-> result]

InitTwin ==
    /\ now = 0
    /\ cache = <<>>
    /\ call = IdleCall
    /\ queue = <<>>
    /\ zombies = 0
    /\ Quiet
    /\ prev = Twin(<<>>, None)
    /\ arg = None
    /\ res = None

\* get(source, query) on both caches.
BothGet(source, query) ==
    /\ res' = CacheGet(cache, source, query, now)
    /\ cache' = CacheAfterGet(cache, source, query, now)
    /\ prev' = Twin(CacheAfterGet(prev.store, source, query, now),
                    CacheGet(prev.store, source, query, now))
    /\ arg' = [op |-> "get", source |-> source, query |-> query]
    /\ UNCHANGED <<now, call, queue, zombies, threads, lock, limiter, closed, _api_available>>

\* set(source, query, data) on both caches.
BothSet(source, query, data) ==
    /\ cache' = CacheSet(cache, source, query, data, now)
    /\ prev' = Twin(CacheSet(prev.store, source, query, data, now), None)
    /\ arg' = [op |-> "set", source |-> source, query |-> query, data |-> data]
    /\ res' = None
    /\ UNCHANGED <<now, call, queue, zombies, threads, lock, limiter, closed, _api_available>>

\* clear() on both caches.
BothClear ==
    /\ cache' = CacheClear
    /\ prev' = Twin(CacheClear, None)
    /\ arg' = [op |-> "clear"]
    /\ res' = None
    /\ UNCHANGED <<now, call, queue, zombies, threads, lock, limiter, closed, _api_available>>

\* _cleanup_expired() on the swept cache alone.
Sweep ==
    /\ cache' = CacheCleanup(cache, now)
    /\ prev' = Twin(prev.store, None)
    /\ arg' = [op |-> "cleanup"]
    /\ res' = None
    /\ UNCHANGED <<now, call, queue, zombies, threads, lock, limiter, closed, _api_available>>

\* One second passes for both.
BothElapse ==
    /\ now < MaxTime
    /\ now' = now + 1
    /\ prev' = Twin(prev.store, None)
    /\ arg' = [op |-> "sleep"]
    /\ res' = None
    /\ UNCHANGED <<cache, call, queue, zombies, threads, lock, limiter, closed, _api_available>>

NextTwin ==
    \/ \E source \in CacheSources, query \in CacheQueries : BothGet(source, query)
    \/ \E source \in CacheSources, query \in CacheQueries, data \in Payloads :
          BothSet(source, query, data)
    \/ BothClear
    \/ Sweep
    \/ BothElapse

SpecTwin == InitTwin /\ [][NextTwin]_vars

-----------------------------------------------------------------------------
(* DataQualityAssessor.assess_quality applied to drawn inputs *)

\* A product list of n entries; every third one lacks price and metadata.
SampleProducts(n) ==
    [i \in 1..n |->
        IF i % 3 = 0
        THEN [id |-> "p", title |-> "t", price |-> 0, url |-> "u",
              metadata |-> <<>>]
        ELSE [id |-> "p", title |-> "t", price |-> 100, url |-> "u",
              metadata |-> [brand |-> "Acme", rating |-> 5, reviews_count |-> 7]]]

UsedLists == UNION {[1..n -> {"wildberries", "ozon"}] : n \in 0..MaxUsed}

\* Average data ages <<total_age, source_count>> on both sides of each band.
AgeSamples ==
    {<<0, 1>>, <<3600, 1>>, <<3601, 1>>, <<7201, 2>>, <<21600, 1>>, <<21601, 1>>,
     <<86400, 1>>, <<86401, 1>>, <<604800, 1>>, <<604801, 1>>}

\* List lengths on both sides of the thresholds 5 and 20 of the base score.
ProductCounts == {0, 1, 4, 5, MaxProducts - 1, MaxProducts}

AssessInputs ==
    UNION {
      {[op |-> "assess_quality", products |-> SampleProducts(n), sources_used |-> u,
        errors |-> [i \in 1..k |-> [source |-> u[i],
                                    error |-> UnitFailed("search", u[i])]],
        cache_hits |-> h, data_age |-> a] :
          n \in ProductCounts, k \in 0..Len(u), h \in [Range(u) -> BOOLEAN],
          a \in AgeSamples} : u \in UsedLists}

InitAssess ==
    /\ now = 0
    /\ cache = <<>>
    /\ call = IdleCall
    /\ queue = <<>>
    /\ zombies = 0
    /\ Quiet
    /\ prev = NoPrev
    /\ arg \in AssessInputs
    /\ res = None

Assess ==
    /\ res = None
    /\ res' = assess_quality(arg.products, arg.sources_used, arg.errors,
                             arg.cache_hits, arg.data_age)
    /\ UNCHANGED <<now, cache, call, queue, zombies, prev, arg, threads, lock, limiter, closed, _api_available>>

NextAssess == Assess

SpecAssess == InitAssess /\ [][NextAssess]_vars

-----------------------------------------------------------------------------
(* The result processing of search applied to drawn unit outcomes *)

BundleNames == {"wildberries", "ozon", "yandex"}

\* The ways the unit of `source` can have finished by time t: its fetch
\* raised, its fetch returned at t, a tier-1 hit or a fallback hit on an
\* entry stored one second earlier.
UnitOutcomes(source, query, t) ==
    {Unit(source, "raised", <<>>, FALSE, -1, FALSE, TRUE),
     Unit(source, "returned", Listing(source, query), FALSE, t, FALSE, TRUE),
     Unit(source, "returned", Listing(source, query), TRUE, t - 1, FALSE, FALSE),
     Unit(source, "returned", Listing(source, query), TRUE, t - 1, TRUE, TRUE)}

\* All tasks look the cache up at the start of the call: the units of one
\* source hit it together or not at all.
HitsAgree(units) ==
    \A i, j \in DOMAIN units :
        (units[i].source = units[j].source /\ ~units[i].invoked) => ~units[j].invoked

UnitVectors(query, t) ==
    {units \in UNION {[1..n -> UNION {UnitOutcomes(s, query, t) : s \in BundleNames}] :
                          n \in 0..MaxUnits} : HitsAgree(units)}

InitBundle ==
    /\ now = 1
    /\ cache = <<>>
    /\ call = IdleCall
    /\ queue = <<>>
    /\ zombies = 0
    /\ Quiet
    /\ prev = NoPrev
    /\ arg \in {[op |-> "bundle", query |-> "q1", units |-> units] :
                   units \in UnitVectors("q1", 1)}
    /\ res = None

\* search, lines 457-517, on the gathered results.
Build ==
    /\ res = None
    /\ res' = BuildBundle(arg.query,
                          [i \in DOMAIN arg.units |-> arg.units[i].source],
                          arg.units, now)
    /\ UNCHANGED <<now, cache, call, queue, zombies, prev, arg, threads, lock, limiter, closed, _api_available>>

NextBundle == Build

SpecBundle == InitBundle /\ [][NextBundle]_vars

-----------------------------------------------------------------------------
(* The result processing of search applied to drawn listings *)

\* Products a source.search may return (base.Product does not validate its
\* arguments): two listings with the same id, one of them without a brand in
\* its metadata; a listing of another brand; a listing whose id and brand
\* are empty strings, as the Wildberries parser builds it from a payload that
\* lacks both; and a product whose price is None.
ProductSamples ==
    {[id |-> "a", title |-> "t", price |-> 100, url |-> "u",
      metadata |-> [brand |-> "Acme", rating |-> 5, reviews_count |-> 7]],
     [id |-> "a", title |-> "t", price |-> 200, url |-> "u",
      metadata |-> [rating |-> 5]],
     [id |-> "b", title |-> "t", price |-> 400, url |-> "u",
      metadata |-> [brand |-> "Bolt", rating |-> 4, reviews_count |-> 1]],
     [id |-> "", title |-> "t", price |-> 100, url |-> "u",
      metadata |-> [brand |-> "", rating |-> 0, reviews_count |-> 0]],
     [id |-> "n", title |-> "t", url |-> "u",
      metadata |-> [brand |-> "Acme"]]}

ListedLists == UNION {[1..n -> ProductSamples] : n \in 0..MaxListed}

\* Brands of a long listing, by position: seven brands of unequal frequency.
BrandCycle == <<"b1", "b2", "b2", "b3", "b3", "b3", "b4", "b5", "b6", "b6", "b7">>

ManyBrands(n) ==
    [i \in 1..n |->
        [id |-> BrandCycle[((i - 1) % Len(BrandCycle)) + 1], title |-> "t",
         price |-> 100 * i, url |-> "u",
         metadata |-> [brand |-> BrandCycle[((i - 1) % Len(BrandCycle)) + 1],
                       rating |-> 5, reviews_count |-> 7]]]

LongLists == {ManyBrands(n) : n \in {5, 8, 9, MaxListed + 9}}

\* The gathered results of a search of Wildberries and Ozon whose fetches
\* ended at time t: Wildberries returned a list, Ozon returned a list or
\* raised.
ListingUnits(t) ==
    {<<Unit("wildberries", "returned", l1, FALSE, t, FALSE, TRUE), u2>> :
        l1 \in ListedLists \cup LongLists,
        u2 \in {Unit("ozon", "raised", <<>>, FALSE, -1, FALSE, TRUE)}
               \cup {Unit("ozon", "returned", l2, FALSE, t, FALSE, TRUE) :
                         l2 \in ListedLists}}

InitListings ==
    /\ now = 1
    /\ cache = <<>>
    /\ call = IdleCall
    /\ queue = <<>>
    /\ zombies = 0
    /\ Quiet
    /\ prev = NoPrev
    /\ arg \in {[op |-> "bundle", query |-> "q1", units |-> units] :
                   units \in ListingUnits(1)}
    /\ res = None

SpecListings == InitListings /\ [][NextBundle]_vars

-----------------------------------------------------------------------------
(* The result processing of get_trends applied to drawn outcomes *)

\* Trend scores a source.get_trends may return, in hundredths: the neutral
\* 0.5 of a source without a trends API, the 0.7 of the test, and 1.0.
TrendScores == {50, 70, 100}

\* The ways the _get_trends_source task of `source` can have finished.
TrendOutcomes(source, query, t) ==
    {Unit(source, "raised", <<>>, FALSE, -1, FALSE, TRUE)}
    \cup {Unit(source, "returned",
               [query |-> query, trend_score |-> x, historical_data |-> <<>>],
               FALSE, t, FALSE, TRUE) : x \in TrendScores}

TrendVectors(query, t) ==
    UNION {[1..n -> UNION {TrendOutcomes(s, query, t) : s \in BundleNames}] :
               n \in 0..MaxUnits}

InitTrends ==
    /\ now = 1
    /\ cache = <<>>
    /\ call = IdleCall
    /\ queue = <<>>
    /\ zombies = 0
    /\ Quiet
    /\ prev = NoPrev
    /\ arg \in {[op |-> "trends", query |-> "q1", units |-> units] :
                   units \in TrendVectors("q1", 1)}
    /\ res = None

\* get_trends, lines 747-787, on the gathered results.
Average ==
    /\ res = None
    /\ res' = BuildTrends(arg.query,
                          [i \in DOMAIN arg.units |-> arg.units[i].source],
                          arg.units, now)
    /\ UNCHANGED <<now, cache, call, queue, zombies, prev, arg, threads, lock, limiter, closed, _api_available>>

NextTrends == Average

SpecTrends == InitTrends /\ [][NextTrends]_vars

-----------------------------------------------------------------------------
(* The aggregator used in a with-block *)

\* What close() releases, in the order of lines 831-835: the worker pool,
\* then the four data sources.
Owned == <<"executor", "wildberries", "ozon", "yandex", "google_trends">>

\* The code that runs the block: inside the body, in close() at the
\* shutdown of the pool or at the sources, or past the block; exc tells
\* whether the body left with an exception.
Block(pc, exc) == [pc |-> pc, exc |-> exc]

\* An exit that runs close() only when the body ended normally.
ExitUnlessRaised(exc) == IF exc THEN "outside" ELSE "shutdown"

\* The with statement calls __exit__ on every exit of the body; __exit__
\* (lines 843-847) calls close() whatever exc_type is.
ExitPath(exc) == "shutdown"

InitBlock ==
    /\ now = 0
    /\ cache = <<>>
    /\ call = IdleCall
    /\ queue = <<>>
    /\ zombies = 0
    /\ prev = NoPrev
    /\ arg = None
    /\ res = None
    /\ threads = <<Block("inside", FALSE)>>
    /\ lock = None
    /\ limiter = None
    /\ closed = {}
    /\ _api_available = TRUE

\* The body of the block: calls of search, get_trends and clear_cache.
Body ==
    /\ threads[1].pc = "inside"
    /\ Next

\* The body ends between two calls, normally or with an exception of its own.
LeaveBlock(exc) ==
    /\ threads[1].pc = "inside"
    /\ call.status = "idle"
    /\ threads' = <<Block(ExitPath(exc), exc)>>
    /\ UNCHANGED <<now, cache, call, queue, zombies, prev, arg, res, lock, limiter, closed, _api_available>>

\* The exception of a search or get_trends call leaves the body.
Propagate ==
    /\ threads[1].pc = "inside"
    /\ call.status = "raised"
    /\ threads' = <<Block(ExitPath(TRUE), TRUE)>>
    /\ call' = IdleCall
    /\ UNCHANGED <<now, cache, queue, zombies, prev, arg, res, lock, limiter, closed, _api_available>>

\* Fetches abandoned by a timed-out call end while close() waits for them.
Drain ==
    /\ threads[1].pc = "shutdown"
    /\ ZombieReturn

\* Line 831: self.executor.shutdown(wait=True) returns once no worker runs
\* a fetch.
Shutdown ==
    /\ threads[1].pc = "shutdown"
    /\ zombies = 0
    /\ closed' = closed \cup {Owned[1]}
    /\ threads' = <<Block("closing", threads[1].exc)>>
    /\ UNCHANGED <<now, cache, call, queue, zombies, prev, arg, res, lock, limiter, _api_available>>

\* Lines 832-835: the close() of the next data source.
CloseSource ==
    /\ threads[1].pc = "closing"
    /\ Cardinality(closed) < Len(Owned)
    /\ closed' = closed \cup {Owned[Cardinality(closed) + 1]}
    /\ UNCHANGED <<now, cache, call, queue, zombies, prev, arg, res, threads, lock, limiter, _api_available>>

\* close() and __exit__ return; an exception of the body goes on.
Leave ==
    /\ threads[1].pc = "closing"
    /\ Cardinality(closed) = Len(Owned)
    /\ threads' = <<Block("outside", threads[1].exc)>>
    /\ UNCHANGED <<now, cache, call, queue, zombies, prev, arg, res, lock, limiter, closed, _api_available>>

NextBlock ==
    \/ Body
    \/ \E exc \in BOOLEAN : LeaveBlock(exc)
    \/ Propagate
    \/ Drain
    \/ Shutdown
    \/ CloseSource
    \/ Leave

SpecBlock == InitBlock /\ [][NextBlock]_vars

-----------------------------------------------------------------------------
(* search on an aggregator that has been closed *)

\* A pool that still takes the fetch after its shutdown: the task waits for
\* a worker as it does on an open aggregator.
SubmitAccepted(c, s, query, use_cache, fallback_to_cache, t) ==
    IF Tier1Hit(c, s, query, use_cache, t)
    THEN Unit(s, "returned", CacheGet(c, s, query, t).products, TRUE,
              CacheGet(c, s, query, t).timestamp, FALSE, FALSE)
    ELSE Unit(s, "running", <<>>, FALSE, -1, FALSE, TRUE)

\* _search_source (lines 543-606) once the pool is shut down: a tier-1 hit
\* returns as before; otherwise run_in_executor raises "cannot schedule new
\* futures after shutdown" inside the try, before any fetch starts, and the
\* except branch serves the entry of the fallback lookup or raises.
SubmitRefused(c, s, query, use_cache, fallback_to_cache, t) ==
    LET d == CacheGet(c, s, query, t)
    IN  IF Tier1Hit(c, s, query, use_cache, t)
        THEN Unit(s, "returned", d.products, TRUE, d.timestamp, FALSE, FALSE)
        ELSE IF fallback_to_cache /\ d # None
        THEN Unit(s, "returned", d.products, TRUE, d.timestamp, TRUE, FALSE)
        ELSE Unit(s, "raised", <<>>, FALSE, -1, FALSE, FALSE)

\* MarketDataAggregator.search, lines 395-517, called after close(): every
\* task runs to its end in its first step and the gather is complete at once.
SearchAfterClose(query, sources, use_cache, timeout, fallback_to_cache) ==
    /\ threads[1].pc = "outside"
    /\ call.status = "idle"
    /\ LET names == SourcesToUse(sources)
           units == [i \in DOMAIN names |->
                        SubmitRefused(cache, names[i], query, use_cache,
                                      fallback_to_cache, now)]
       IN  /\ call' = Settle(NewCall("search", query, sources, use_cache, timeout,
                                     fallback_to_cache, units, now), now)
           /\ cache' = IF use_cache \/ fallback_to_cache
                       THEN CacheAfterLookups(cache, names, query, now)
                       ELSE cache
    /\ UNCHANGED <<now, queue, zombies, prev, arg, res, threads, lock, limiter, closed, _api_available>>

\* The caller receives the bundle of a search made after close().
ReceiveAfterClose ==
    /\ threads[1].pc = "outside"
    /\ Consume(FALSE)

\* One second passes after close().
ElapseAfterClose ==
    /\ threads[1].pc = "outside"
    /\ Tick

NextClosed ==
    \/ Body
    \/ \E exc \in BOOLEAN : LeaveBlock(exc)
    \/ Propagate
    \/ Drain
    \/ Shutdown
    \/ CloseSource
    \/ Leave
    \/ \E query \in Queries, sources \in SourceLists, use_cache \in BOOLEAN,
          timeout \in Timeouts, fallback_to_cache \in BOOLEAN :
          SearchAfterClose(query, sources, use_cache, timeout, fallback_to_cache)
    \/ ReceiveAfterClose
    \/ ElapseAfterClose

SpecClosed == InitBlock /\ [][NextClosed]_vars

-----------------------------------------------------------------------------
(* _make_request of the Wildberries and Ozon sources *)

\* What one call of requests.request, raise_for_status and json can do:
\* deliver a response, raise a RequestException (or the ValueError of a body
\* that is not JSON), or raise any other exception.
Outcomes == {"ok", "RequestException", "Exception"}

\* A _make_request in progress: `attempt` is the loop variable of the
\* method of the source, `inner` the loop variable of DataSource._make_request
\* when the source calls it, `http` the number of calls of requests.request
\* made so far, `error` the exception the method raised.
Request(source, pc, attempt, inner, http, error) ==
    [source |-> source, pc |-> pc, attempt |-> attempt, inner |-> inner,
     http |-> http, error |-> error]

FailedAfter(source) ==
    [message  |-> IF source = "ozon" THEN "Ozon request failed after"
                  ELSE "Request failed after",
     attempts |-> max_retries]

\* The loop of the source after an iteration that failed: the next
\* iteration, or the raise after the last one.
NextIteration(r) ==
    IF r.attempt + 1 < max_retries
    THEN [r EXCEPT !.attempt = @ + 1, !.inner = 0]
    ELSE [r EXCEPT !.attempt = @ + 1, !.inner = 0, !.pc = "raised",
                   !.error = FailedAfter(r.source)]

\* The start of _make_request, past the rate limiters.
BeginRequest(source) ==
    /\ threads = <<>>
    /\ threads' = <<Request(source, "loop", 0, 0, 0, None)>>
    /\ UNCHANGED <<now, cache, call, queue, zombies, prev, arg, res, lock, limiter, closed, _api_available>>

\* WildberriesSearch._make_request, lines 276-313: one iteration of the loop.
\* The except clause names RequestException and ValueError only; any other
\* exception leaves the method.
WildberriesAttempt(outcome) ==
    /\ threads # <<>>
    /\ threads[1].source = "wildberries" /\ threads[1].pc = "loop"
    /\ LET r == [threads[1] EXCEPT !.http = @ + 1]
       IN  threads' = <<CASE outcome = "ok" -> [r EXCEPT !.pc = "returned"]
                          [] outcome = "RequestException" -> NextIteration(r)
                          [] OTHER -> [r EXCEPT !.pc = "raised",
                                                !.error = Raised(outcome)]>>
    /\ UNCHANGED <<now, cache, call, queue, zombies, prev, arg, res, lock, limiter, closed, _api_available>>

\* OzonSearch._make_request, lines 468-500, around DataSource._make_request,
\* base.py lines 186-215: one call of requests.request.  The loop of the
\* base method, which runs self.max_retries times as well, retries on
\* RequestException and raises when it is exhausted; the loop of the source
\* catches every exception of the base method and calls it again.
OzonAttempt(outcome) ==
    /\ threads # <<>>
    /\ threads[1].source = "ozon" /\ threads[1].pc = "loop"
    /\ LET r == [threads[1] EXCEPT !.http = @ + 1]
       IN  threads' = <<CASE outcome = "ok" -> [r EXCEPT !.pc = "returned"]
                          [] outcome = "RequestException" ->
                                IF r.inner + 1 < max_retries
                                THEN [r EXCEPT !.inner = @ + 1]
                                ELSE NextIteration(r)
                          [] OTHER -> NextIteration(r)>>
    /\ UNCHANGED <<now, cache, call, queue, zombies, prev, arg, res, lock, limiter, closed, _api_available>>

\* The caller has the response or the exception.
EndRequest ==
    /\ threads # <<>>
    /\ threads[1].pc \in {"returned", "raised"}
    /\ threads' = <<>>
    /\ UNCHANGED <<now, cache, call, queue, zombies, prev, arg, res, lock, limiter, closed, _api_available>>

NextRetry ==
    \/ \E source \in {"wildberries", "ozon"} : BeginRequest(source)
    \/ \E outcome \in Outcomes : WildberriesAttempt(outcome)
    \/ \E outcome \in Outcomes : OzonAttempt(outcome)
    \/ EndRequest

SpecRetry == Init /\ [][NextRetry]_vars

-----------------------------------------------------------------------------
(* WildberriesSearch.search against a provider that limits the rate *)

\* What one HTTP attempt of _make_request can do: deliver a response, raise
\* a RequestException whose message holds "429", raise another
\* RequestException, raise an exception of another class whose message
\* holds "429" (the mock of test_search_rate_limiting), or raise any other
\* exception.
Replies == {"ok", "RequestException429", "RequestException",
            "Exception429", "Exception"}

Says429(reply) == reply \in {"RequestException429", "Exception429"}

\* A search in progress: `depth` counts the invocations of search on the
\* stack (the first call is 1), `attempt` is the loop variable of
\* _make_request, `http` the calls of requests.request so far, `slept` the
\* time spent in time.sleep, in tenths of a second.
Searching(pc, depth, attempt, http, slept, error) ==
    [pc |-> pc, depth |-> depth, attempt |-> attempt, http |-> http,
     slept |-> slept, error |-> error]

Least(a, b) == IF a < b THEN a ELSE b

\* Lines 203-212: the except clause of search.  A message with "429" in it
\* makes search sleep min(60, 2 ** max_retries) seconds and call itself;
\* MaxDepth stands for the recursion limit of the interpreter, at which the
\* nested call raises RecursionError, whose message the handlers on the stack
\* wrap.  Any other message is wrapped and raised.
SearchFailed(r, reply) ==
    IF Says429(reply)
    THEN IF r.depth < MaxDepth
         THEN [r EXCEPT !.depth = @ + 1, !.attempt = 0,
                        !.slept = @ + 10 * Least(60, 2 ^ max_retries)]
         ELSE [r EXCEPT !.pc = "raised", !.error = Raised("RecursionError"),
                        !.slept = @ + 10 * Least(60, 2 ^ max_retries)]
    ELSE [r EXCEPT !.pc = "raised", !.error = Raised(reply)]

\* search is called: line 182, _make_request has passed its rate limiters.
BeginSearch ==
    /\ threads = <<>>
    /\ threads' = <<Searching("request", 1, 0, 0, 0, None)>>
    /\ UNCHANGED <<now, cache, call, queue, zombies, prev, arg, res, lock, limiter, closed, _api_available>>

\* One iteration of the loop of _make_request, lines 276-313, and what
\* search does with its outcome, lines 189-212.
SearchAttempt(reply) ==
    /\ threads # <<>> /\ threads[1].pc = "request"
    /\ LET r    == [threads[1] EXCEPT !.http = @ + 1]
           last == r.attempt = max_retries - 1
       IN  threads' =
             <<CASE reply = "ok" -> [r EXCEPT !.pc = "returned"]
                 [] reply = "RequestException429" ->
                       IF last THEN SearchFailed(r, reply)
                       ELSE [r EXCEPT !.attempt = @ + 1,
                                      !.slept = @ + 10 * Least(60, (2 ^ r.attempt) * 5)]
                 [] reply = "RequestException" ->
                       IF last THEN SearchFailed(r, reply)
                       ELSE [r EXCEPT !.attempt = @ + 1,
                                      !.slept = @ + 2 ^ r.attempt]
                 [] OTHER -> SearchFailed(r, reply)>>
    /\ UNCHANGED <<now, cache, call, queue, zombies, prev, arg, res, lock, limiter, closed, _api_available>>

\* The caller has the products or the exception.
EndSearch ==
    /\ threads # <<>> /\ threads[1].pc \in {"returned", "raised"}
    /\ threads' = <<>>
    /\ UNCHANGED <<now, cache, call, queue, zombies, prev, arg, res, lock, limiter, closed, _api_available>>

NextSearch ==
    \/ BeginSearch
    \/ \E reply \in Replies : SearchAttempt(reply)
    \/ EndSearch

SpecSearch == Init /\ [][NextSearch]_vars

-----------------------------------------------------------------------------
(* The units of one search completing in any order *)

\* The results in the order in which the units completed.
InCompletionOrder(units, order) == [k \in DOMAIN order |-> units[order[k]]]

\* asyncio.gather (lines 447-450) returns the results in the order of the
\* tasks, that of sources_to_use, whatever the order of completion.
InTaskOrder(units, order) == units

\* The bundle search builds from the outcomes `units` that completed in
\* the order `order`.
BundleInOrder(query, units, order, t) ==
    LET results == InTaskOrder(units, order)
    IN  BuildBundle(query, [i \in DOMAIN results |-> results[i].source], results, t)

\* `arg` holds the outcome each unit will have, `prev` the indices of the
\* units that have completed, in the order of their completion.
InitOrder ==
    /\ now = 1
    /\ cache = <<>>
    /\ call = IdleCall
    /\ queue = <<>>
    /\ zombies = 0
    /\ Quiet
    /\ prev = [order |-> <<>>]
    /\ arg \in {[op |-> "gather", query |-> "q1", units |-> units] :
                   units \in ListingUnits(1)}
    /\ res = None

\* Unit i completes; the completion of the last one ends the gather and
\* search builds its bundle.
Complete(i) ==
    /\ i \in DOMAIN arg.units
    /\ i \notin Range(prev.order)
    /\ prev' = [order |-> Append(prev.order, i)]
    /\ res' = IF Len(prev.order) + 1 = Len(arg.units)
              THEN BundleInOrder(arg.query, arg.units, Append(prev.order, i), now)
              ELSE None
    /\ UNCHANGED <<now, cache, call, queue, zombies, arg, threads, lock, limiter, closed, _api_available>>

NextOrder == \E i \in 1..MaxUnits : Complete(i)

SpecOrder == InitOrder /\ [][NextOrder]_vars

-----------------------------------------------------------------------------
(* SearchCache called from several threads *)

Threads == 1..MaxThreads

\* The one key the threads contend for.
SharedSource == "wildberries"
SharedQuery == "q1"
SharedKey == _make_key(SharedSource, SharedQuery)

\* A thread outside the cache.  Inside a method: pc is its position, `item`
\* the cache_item it built (set) or read (get), current_time its reading of
\* time.time(), expired the expired_keys of a sweep, result what the method
\* returns or raises.
IdleThread ==
    [pc |-> "idle", op |-> "none", item |-> None, current_time |-> -1,
     expired |-> {}, result |-> None]

\* The lock held by thread t.
Held(t) == [holder |-> t]

\* A thread that takes the lock whoever holds it.
EnterAnyway(holder) == TRUE

\* `with self._lock:` lets a thread in when no thread holds the lock.
CanEnter(holder) == holder = None

\* get, lines 60-62: the key is made, the thread arrives at the lock.
BeginGet(t) ==
    /\ threads[t].pc = "idle"
    /\ threads' = [threads EXCEPT ![t] = [IdleThread EXCEPT !.pc = "enter", !.op = "get"]]
    /\ UNCHANGED <<now, cache, call, queue, zombies, prev, arg, res, lock, limiter, closed, _api_available>>

\* set, lines 93-102: the item is built with the time of this moment, before
\* the lock is taken.
BeginSet(t, data) ==
    /\ threads[t].pc = "idle"
    /\ threads' = [threads EXCEPT ![t] =
                      [IdleThread EXCEPT !.pc = "enter", !.op = "set",
                                         !.item = [timestamp |-> now, data |-> data,
                                                   source |-> SharedSource,
                                                   query_hash |-> SharedKey[2]]]]
    /\ UNCHANGED <<now, cache, call, queue, zombies, prev, arg, res, lock, limiter, closed, _api_available>>

\* clear, line 109
BeginClear(t) ==
    /\ threads[t].pc = "idle"
    /\ threads' = [threads EXCEPT ![t] = [IdleThread EXCEPT !.pc = "enter", !.op = "clear"]]
    /\ UNCHANGED <<now, cache, call, queue, zombies, prev, arg, res, lock, limiter, closed, _api_available>>

\* _cleanup_expired, lines 118-121: the time is read before the lock is taken.
BeginCleanup(t) ==
    /\ threads[t].pc = "idle"
    /\ threads' = [threads EXCEPT ![t] =
                      [IdleThread EXCEPT !.pc = "enter", !.op = "cleanup",
                                         !.current_time = now]]
    /\ UNCHANGED <<now, cache, call, queue, zombies, prev, arg, res, lock, limiter, closed, _api_available>>

\* The thread acquires the lock and stands before the first statement of the
\* with-block.
Enter(t) ==
    /\ threads[t].pc = "enter"
    /\ CanEnter(lock)
    /\ lock' = Held(t)
    /\ threads' = [threads EXCEPT ![t].pc = threads[t].op]
    /\ UNCHANGED <<now, cache, call, queue, zombies, prev, arg, res, limiter, closed, _api_available>>

\* get, lines 63-65: cached_item = self._cache.get(key)
GetRead(t) ==
    /\ threads[t].pc = "get"
    /\ threads' = [threads EXCEPT ![t] =
                      IF SharedKey \in DOMAIN cache
                      THEN [@ EXCEPT !.pc = "get_check", !.item = cache[SharedKey]]
                      ELSE [@ EXCEPT !.pc = "exit", !.result = None]]
    /\ UNCHANGED <<now, cache, call, queue, zombies, prev, arg, res, lock, limiter, closed, _api_available>>

\* get, lines 68-82: the expiry test against the time of this moment.
GetCheck(t) ==
    /\ threads[t].pc = "get_check"
    /\ threads' = [threads EXCEPT ![t] =
                      IF now > threads[t].item.timestamp + cache_ttl
                      THEN [@ EXCEPT !.pc = "get_del", !.current_time = now]
                      ELSE [@ EXCEPT !.pc = "exit", !.current_time = now,
                                     !.result = threads[t].item.data]]
    /\ UNCHANGED <<now, cache, call, queue, zombies, prev, arg, res, lock, limiter, closed, _api_available>>

\* get, lines 78-79: del self._cache[key], which raises KeyError when the key
\* is not in the dict.
GetDel(t) ==
    /\ threads[t].pc = "get_del"
    /\ IF SharedKey \in DOMAIN cache
       THEN /\ cache' = [k \in DOMAIN cache \ {SharedKey} |-> cache[k]]
            /\ threads' = [threads EXCEPT ![t].pc = "exit", ![t].result = None]
       ELSE /\ cache' = cache
            /\ threads' = [threads EXCEPT ![t].pc = "exit",
                                          ![t].result = Raised("KeyError")]
    /\ UNCHANGED <<now, call, queue, zombies, prev, arg, res, lock, limiter, closed, _api_available>>

\* set, line 103: self._cache[key] = cache_item
SetStore(t) ==
    /\ threads[t].pc = "set"
    /\ cache' = [k \in DOMAIN cache \cup {SharedKey} |->
                    IF k = SharedKey THEN threads[t].item ELSE cache[k]]
    /\ threads' = [threads EXCEPT ![t].pc = "exit"]
    /\ UNCHANGED <<now, call, queue, zombies, prev, arg, res, lock, limiter, closed, _api_available>>

\* clear, line 110
ClearAll(t) ==
    /\ threads[t].pc = "clear"
    /\ cache' = CacheClear
    /\ threads' = [threads EXCEPT ![t].pc = "exit"]
    /\ UNCHANGED <<now, call, queue, zombies, prev, arg, res, lock, limiter, closed, _api_available>>

\* _cleanup_expired, lines 122-127: the scan that collects expired_keys.
CleanupScan(t) ==
    /\ threads[t].pc = "cleanup"
    /\ threads' = [threads EXCEPT
                      ![t].pc = "cleanup_del",
                      ![t].expired = {k \in DOMAIN cache :
                                         threads[t].current_time > cache[k].timestamp + cache_ttl}]
    /\ UNCHANGED <<now, cache, call, queue, zombies, prev, arg, res, lock, limiter, closed, _api_available>>

\* _cleanup_expired, lines 130-131: del self._cache[key] for each expired key.
CleanupDel(t) ==
    /\ threads[t].pc = "cleanup_del"
    /\ IF threads[t].expired \subseteq DOMAIN cache
       THEN /\ cache' = [k \in DOMAIN cache \ threads[t].expired |-> cache[k]]
            /\ threads' = [threads EXCEPT ![t].pc = "exit"]
       ELSE /\ cache' = cache
            /\ threads' = [threads EXCEPT ![t].pc = "exit",
                                          ![t].result = Raised("KeyError")]
    /\ UNCHANGED <<now, call, queue, zombies, prev, arg, res, lock, limiter, closed, _api_available>>

\* The with-block is left, by return or by exception: the lock is released
\* and the method ends.
Exit(t) ==
    /\ threads[t].pc = "exit"
    /\ lock' = None
    /\ threads' = [threads EXCEPT ![t] = IdleThread]
    /\ UNCHANGED <<now, cache, call, queue, zombies, prev, arg, res, limiter, closed, _api_available>>

InitThreads ==
    /\ now = 0
    /\ cache = <<>>
    /\ call = IdleCall
    /\ queue = <<>>
    /\ zombies = 0
    /\ prev = NoPrev
    /\ arg = None
    /\ res = None
    /\ threads = [t \in Threads |-> IdleThread]
    /\ lock = None
    /\ limiter = None
    /\ closed = {}
    /\ _api_available = TRUE

NextThreads ==
    \/ \E t \in Threads : BeginGet(t)
    \/ \E t \in Threads, data \in Payloads : BeginSet(t, data)
    \/ \E t \in Threads : BeginClear(t)
    \/ \E t \in Threads : BeginCleanup(t)
    \/ \E t \in Threads : Enter(t)
    \/ \E t \in Threads : GetRead(t)
    \/ \E t \in Threads : GetCheck(t)
    \/ \E t \in Threads : GetDel(t)
    \/ \E t \in Threads : SetStore(t)
    \/ \E t \in Threads : ClearAll(t)
    \/ \E t \in Threads : CleanupScan(t)
    \/ \E t \in Threads : CleanupDel(t)
    \/ \E t \in Threads : Exit(t)
    \/ Elapse

SpecThreads == InitThreads /\ [][NextThreads]_vars

-----------------------------------------------------------------------------
(* WildberriesSearch._wildberries_rate_limit called from several threads *)

\* A thread outside the limiter.  Inside: current_time is its reading of
\* time.time() at line 64, wake the time at which its time.sleep ends.
IdleCaller == [pc |-> "idle", current_time |-> -1, wake |-> -1]

\* The limiter fields of a new source (lines 45-49) and, as history, the
\* number of requests admitted and the time between the last two admissions.
NewLimiter ==
    [_request_timestamp |-> 0, _minute_request_count |-> 0, _last_minute |-> 0,
     admitted |-> 0, gap |-> -1]

\* Lines 64-70: the clock and _request_timestamp are read, with no lock
\* held, and the thread sleeps for what is missing of the spacing.
LimitBegin(t) ==
    /\ threads[t].pc = "idle"
    /\ limiter.admitted
         + Cardinality({u \in Threads : threads[u].pc # "idle"}) < MaxAdmitted
    /\ LET time_since_last == now - limiter._request_timestamp
       IN  threads' = [threads EXCEPT ![t] =
              IF time_since_last < min_spacing
              THEN [pc |-> "sleeping", current_time |-> now,
                    wake |-> now + (min_spacing - time_since_last)]
              ELSE [pc |-> "at_lock", current_time |-> now, wake |-> -1]]
    /\ UNCHANGED <<now, cache, call, queue, zombies, prev, arg, res, lock, limiter, closed, _api_available>>

\* Lines 85-88 after the sleep of line 83, and the end of the with-block.
AfterWindowSleep(l, t) ==
    [l EXCEPT !._minute_request_count = 1, !._last_minute = t \div 60]

\* time.sleep returns: after the sleep of line 70 the thread goes on to the
\* lock; after the sleep of line 83, which it spent holding the lock, it
\* resets the counter, counts itself and leaves the with-block.
Wake(t) ==
    /\ threads[t].pc \in {"sleeping", "window_sleep"}
    /\ now >= threads[t].wake
    /\ IF threads[t].pc = "sleeping"
       THEN /\ threads' = [threads EXCEPT ![t].pc = "at_lock"]
            /\ UNCHANGED <<lock, limiter>>
       ELSE /\ threads' = [threads EXCEPT ![t].pc = "stamp"]
            /\ limiter' = AfterWindowSleep(limiter, now)
            /\ lock' = None
    /\ UNCHANGED <<now, cache, call, queue, zombies, prev, arg, res, closed, _api_available>>

\* Line 73: `with self._minute_lock:`
LimitEnter(t) ==
    /\ threads[t].pc = "at_lock"
    /\ CanEnter(lock)
    /\ lock' = Held(t)
    /\ threads' = [threads EXCEPT ![t].pc = "counting"]
    /\ UNCHANGED <<now, cache, call, queue, zombies, prev, arg, res, limiter, closed, _api_available>>

\* Lines 74-88: the counter of the minute, under the lock.
Count(t) ==
    /\ threads[t].pc = "counting"
    /\ LET current_time   == threads[t].current_time
           current_minute == current_time \div 60
           l1 == IF current_minute # limiter._last_minute
                 THEN [limiter EXCEPT !._minute_request_count = 0,
                                      !._last_minute = current_minute]
                 ELSE limiter
       IN  IF l1._minute_request_count >= minute_limit
           THEN /\ limiter' = l1
                /\ threads' = [threads EXCEPT
                                  ![t].pc = "window_sleep",
                                  ![t].wake = now + (60 - (current_time % 60))]
                /\ lock' = lock
           ELSE /\ limiter' = [l1 EXCEPT !._minute_request_count = @ + 1]
                /\ threads' = [threads EXCEPT ![t].pc = "stamp"]
                /\ lock' = None
    /\ UNCHANGED <<now, cache, call, queue, zombies, prev, arg, res, closed, _api_available>>

\* Line 91: self._request_timestamp = time.time(), with no lock held; the
\* request is admitted.
Stamp(t) ==
    /\ threads[t].pc = "stamp"
    /\ limiter' = [limiter EXCEPT
                      !._request_timestamp = now,
                      !.admitted = @ + 1,
                      !.gap = IF limiter.admitted = 0 THEN -1
                              ELSE now - limiter._request_timestamp]
    /\ threads' = [threads EXCEPT ![t] = IdleCaller]
    /\ UNCHANGED <<now, cache, call, queue, zombies, prev, arg, res, lock, closed, _api_available>>

\* One second passes.
Pass ==
    /\ now < MaxTime + min_spacing
    /\ now' = now + 1
    /\ UNCHANGED <<cache, call, queue, zombies, prev, arg, res, threads, lock, limiter, closed, _api_available>>

\* The clock stands far beyond the initial _request_timestamp 0: the first
\* caller never sleeps.
InitLimiter ==
    /\ now = min_spacing
    /\ cache = <<>>
    /\ call = IdleCall
    /\ queue = <<>>
    /\ zombies = 0
    /\ prev = NoPrev
    /\ arg = None
    /\ res = None
    /\ threads = [t \in Threads |-> IdleCaller]
    /\ lock = None
    /\ limiter = NewLimiter
    /\ closed = {}
    /\ _api_available = TRUE

NextLimiter ==
    \/ \E t \in Threads : LimitBegin(t)
    \/ \E t \in Threads : Wake(t)
    \/ \E t \in Threads : LimitEnter(t)
    \/ \E t \in Threads : Count(t)
    \/ \E t \in Threads : Stamp(t)
    \/ Pass

SpecLimiter == InitLimiter /\ [][NextLimiter]_vars

-----------------------------------------------------------------------------
(* Concurrent searches of one source and query, with use_cache = true *)

\* The _search_source task of one caller: idle between calls, "fetching"
\* while source.search runs in the pool, "done" with its result.  `calls`
\* and `fetches` count the searches it has made and the fetches it has
\* invoked; cache_hit and failed describe its last result.
Searcher(pc, calls, fetches, cache_hit, failed) ==
    [pc |-> pc, calls |-> calls, fetches |-> fetches, cache_hit |-> cache_hit,
     failed |-> failed]

\* Lines 543-566: the tier-1 lookup, and on a miss the submission of the
\* fetch.
Lookup(t) ==
    /\ threads[t].pc = "idle"
    /\ threads[t].calls < MaxCalls
    /\ LET r == threads[t]
       IN  threads' = [threads EXCEPT ![t] =
              IF Tier1Hit(cache, SharedSource, SharedQuery, TRUE, now)
              THEN Searcher("done", r.calls + 1, r.fetches, TRUE, FALSE)
              ELSE Searcher("fetching", r.calls + 1, r.fetches + 1, FALSE, FALSE)]
    /\ cache' = CacheAfterGet(cache, SharedSource, SharedQuery, now)
    /\ UNCHANGED <<now, call, queue, zombies, prev, arg, res, lock, limiter, closed, _api_available>>

\* Lines 568-585: the fetch returned and its result is stored.
Fetched(t) ==
    /\ threads[t].pc = "fetching"
    /\ cache' = CacheSet(cache, SharedSource, SharedQuery,
                         [products |-> Listing(SharedSource, SharedQuery),
                          timestamp |-> now, query |-> SharedQuery,
                          source |-> SharedSource], now)
    /\ threads' = [threads EXCEPT ![t].pc = "done"]
    /\ UNCHANGED <<now, call, queue, zombies, prev, arg, res, lock, limiter, closed, _api_available>>

\* Lines 587-606: the fetch raised; with fallback_to_cache, its default, a
\* stored entry is served instead.
FetchFailed(t) ==
    /\ threads[t].pc = "fetching"
    /\ LET d == CacheGet(cache, SharedSource, SharedQuery, now)
       IN  threads' = [threads EXCEPT ![t].pc = "done",
                                      ![t].cache_hit = d # None,
                                      ![t].failed = d = None]
    /\ cache' = CacheAfterGet(cache, SharedSource, SharedQuery, now)
    /\ UNCHANGED <<now, call, queue, zombies, prev, arg, res, lock, limiter, closed, _api_available>>

\* The caller has its bundle.
Returned(t) ==
    /\ threads[t].pc = "done"
    /\ threads' = [threads EXCEPT ![t].pc = "idle"]
    /\ UNCHANGED <<now, cache, call, queue, zombies, prev, arg, res, lock, limiter, closed, _api_available>>

\* One second passes; no entry grows older than ttl.
Later ==
    /\ now < cache_ttl
    /\ now' = now + 1
    /\ UNCHANGED <<cache, call, queue, zombies, prev, arg, res, threads, lock, limiter, closed, _api_available>>

InitSearchers ==
    /\ now = 0
    /\ cache = <<>>
    /\ call = IdleCall
    /\ queue = <<>>
    /\ zombies = 0
    /\ prev = NoPrev
    /\ arg = None
    /\ res = None
    /\ threads = [t \in Threads |-> Searcher("idle", 0, 0, FALSE, FALSE)]
    /\ lock = None
    /\ limiter = None
    /\ closed = {}
    /\ _api_available = TRUE

NextSearchers ==
    \/ \E t \in Threads : Lookup(t)
    \/ \E t \in Threads : Fetched(t)
    \/ \E t \in Threads : FetchFailed(t)
    \/ \E t \in Threads : Returned(t)
    \/ Later

SpecSearchers == InitSearchers /\ [][NextSearchers]_vars

-----------------------------------------------------------------------------
(* OzonSearch.search: the API first, web scraping as the fallback *)

\* What the probe of _try_api_search (lines 137-142) can do: answer with
\* status 200 or with another status, raise a RequestException, or raise
\* any other exception.
Probes == {"200", "other status", "RequestException", "Exception"}

\* What _web_scrape_search can do: return products, raise an error whose
\* text holds "429", or raise any other error.
Scrapes == {"ok", "429", "Exception"}

\* A search that tries the API whatever the flag says.
ApiAlwaysTried(flag) == TRUE

\* Line 389: `if self._api_available:`
ApiTried(flag) == flag

\* A thread in OzonSearch.search: pc is "idle", "check" (at line 389),
\* "probe" (in _try_api_search), "api" (in _api_search), "scrape" (in
\* _web_scrape_search) or "done"; depth counts the nested calls of search,
\* began is the flag as it was when the call started, probes and scrapes
\* count the API probes and the web requests of the call, overlapped tells
\* whether another thread was in search at some moment of the call.
OzonSearcher(pc, calls, depth, began, probes, scrapes, overlapped) ==
    [pc |-> pc, calls |-> calls, depth |-> depth, began |-> began,
     probes |-> probes, scrapes |-> scrapes, overlapped |-> overlapped]

\* A worker of the pool calls search(query) on the Ozon instance.
OzonSearchBegin(t) ==
    /\ threads[t].pc = "idle"
    /\ threads[t].calls < MaxCalls
    /\ threads' = [u \in DOMAIN threads |->
          IF u = t
          THEN OzonSearcher("check", threads[t].calls + 1, 1, _api_available, 0, 0,
                            \E v \in DOMAIN threads : threads[v].pc # "idle")
          ELSE IF threads[u].pc # "idle"
          THEN [threads[u] EXCEPT !.overlapped = TRUE]
          ELSE threads[u]]
    /\ UNCHANGED <<now, cache, call, queue, zombies, prev, arg, res, lock,
                   limiter, closed, _api_available>>

\* Lines 389-396: the API is tried if the flag is set, else web scraping.
OzonCheck(t) ==
    /\ threads[t].pc = "check"
    /\ threads' = [threads EXCEPT ![t].pc =
          IF ApiTried(_api_available) THEN "probe" ELSE "scrape"]
    /\ UNCHANGED <<now, cache, call, queue, zombies, prev, arg, res, lock,
                   limiter, closed, _api_available>>

\* _try_api_search, lines 132-155: status 200 sets the flag and goes on to
\* _api_search; another status or a RequestException clears the flag and
\* returns None; any other exception leaves the flag as it is and is
\* swallowed at line 393.  search then scrapes the web.
_try_api_search(t, probe) ==
    /\ threads[t].pc = "probe"
    /\ threads' = [threads EXCEPT ![t].pc = IF probe = "200" THEN "api" ELSE "scrape",
                                  ![t].probes = @ + 1]
    /\ _api_available' = IF probe = "200" THEN TRUE
                         ELSE IF probe = "Exception" THEN _api_available
                         ELSE FALSE
    /\ UNCHANGED <<now, cache, call, queue, zombies, prev, arg, res, lock,
                   limiter, closed>>

\* _api_search, lines 157-204: the products are returned, or the flag is
\* cleared and the error raised, which search swallows at line 393.
_api_search(t, ok) ==
    /\ threads[t].pc = "api"
    /\ threads' = [threads EXCEPT ![t].pc = IF ok THEN "done" ELSE "scrape"]
    /\ _api_available' = IF ok THEN _api_available ELSE FALSE
    /\ UNCHANGED <<now, cache, call, queue, zombies, prev, arg, res, lock,
                   limiter, closed>>

\* _web_scrape_search and lines 398-406: products or an error end the call;
\* an error that names 429 makes search call itself again.
_web_scrape_search(t, scrape) ==
    /\ threads[t].pc = "scrape"
    /\ scrape = "429" => threads[t].depth < MaxDepth
    /\ threads' = [threads EXCEPT ![t].pc = IF scrape = "429" THEN "check" ELSE "done",
                                  ![t].depth = IF scrape = "429" THEN @ + 1 ELSE @,
                                  ![t].scrapes = @ + 1]
    /\ UNCHANGED <<now, cache, call, queue, zombies, prev, arg, res, lock,
                   limiter, closed, _api_available>>

\* search returns or raises to its caller.
OzonSearchEnd(t) ==
    /\ threads[t].pc = "done"
    /\ threads' = [threads EXCEPT ![t].pc = "idle"]
    /\ UNCHANGED <<now, cache, call, queue, zombies, prev, arg, res, lock,
                   limiter, closed, _api_available>>

InitOzon ==
    /\ now = 0
    /\ cache = <<>>
    /\ call = IdleCall
    /\ queue = <<>>
    /\ zombies = 0
    /\ prev = NoPrev
    /\ arg = None
    /\ res = None
    /\ threads = [t \in Threads |-> OzonSearcher("idle", 0, 0, TRUE, 0, 0, FALSE)]
    /\ lock = None
    /\ limiter = None
    /\ closed = {}
    /\ _api_available = TRUE

NextOzon ==
    \/ \E t \in Threads : OzonSearchBegin(t)
    \/ \E t \in Threads : OzonCheck(t)
    \/ \E t \in Threads, probe \in Probes : _try_api_search(t, probe)
    \/ \E t \in Threads, ok \in BOOLEAN : _api_search(t, ok)
    \/ \E t \in Threads, scrape \in Scrapes : _web_scrape_search(t, scrape)
    \/ \E t \in Threads : OzonSearchEnd(t)

SpecOzon == InitOzon /\ [][NextOzon]_vars

-----------------------------------------------------------------------------
(* Properties *)

UnitsOf(c, s) == {i \in DOMAIN c.units : c.units[i].source = s}

IsSearch(c) == c.status # "idle" /\ c.kind = "search"

\* C1: a search whose deadline is not exceeded returns a bundle and never
\* raises, whichever fetches raise: the call raises only with the timeout
\* error at or after its deadline, it is still waiting only while some unit
\* is unfinished before the deadline, and in the returned bundle every
\* source whose fetch raised without a cache fallback is in `errors` under
\* its own name with a source_results entry of empty products, count 0 and
\* cache_hit false, while the products of every succeeding unit are all in
\* `results`.
C1_PartialFailure ==
    IsSearch(call) =>
      /\ call.status = "raised" =>
            /\ call.error = TimedOut("search", call.timeout)
            /\ now >= call.start_time + call.timeout
      /\ call.status = "waiting" =>
            /\ \E i \in DOMAIN call.units : ~Finished(call.units[i])
            /\ now < call.start_time + call.timeout
      /\ call.status = "returned" =>
            LET b == call.bundle
            IN  /\ \A s \in Range(call.sources_to_use) :
                      (\A i \in UnitsOf(call, s) : call.units[i].pc = "raised") =>
                         /\ \E e \in DOMAIN b.errors :
                               /\ b.errors[e].source = s
                               /\ b.errors[e].error = UnitFailed("search", s)
                         /\ b.source_results[s].products = <<>>
                         /\ b.source_results[s].count = 0
                         /\ b.source_results[s].cache_hit = FALSE
                /\ \A i \in DOMAIN call.units :
                      call.units[i].pc = "returned" =>
                         \A k \in DOMAIN call.units[i].products :
                            \E j \in DOMAIN b.results :
                               b.results[j] = call.units[i].products[k]
                /\ Len(b.results) =
                      SumSeq([i \in DOMAIN call.units |->
                                 IF call.units[i].pc = "returned"
                                 THEN Len(call.units[i].products) ELSE 0])

\* A returned search in which one source raised and another delivered products.
C1_Witness ==
    /\ IsSearch(call) /\ call.status = "returned"
    /\ \E i, j \in DOMAIN call.units :
          /\ call.units[i].source # call.units[j].source
          /\ call.units[i].pc = "raised"
          /\ call.units[j].pc = "returned"
          /\ call.units[j].products # <<>>
          /\ Len(call.bundle.results) = 1

\* C3: when `timeout` seconds have elapsed and a unit of a search or
\* get_trends call has not finished, the call raises the timeout error of its
\* kind, which carries the configured duration, and returns no bundle, not
\* even one built from the units that did finish.
C3_Timeout ==
    [][(call.status = "waiting" /\ now' >= call.start_time + call.timeout) =>
          /\ \E i \in DOMAIN call.units : ~Finished(call.units[i])
          /\ call'.status = "raised"
          /\ call'.error = TimedOut(call.kind, call.timeout)
          /\ call'.error[2] = call.timeout
          /\ call'.error # UnitFailed(call.kind, call.units[1].source)
          /\ call'.bundle = None]_vars

\* A timed-out search one unit of which had finished with products.
C3_Witness ==
    /\ IsSearch(call) /\ call.status = "raised"
    /\ call.error = TimedOut("search", call.timeout)
    /\ \E i, j \in DOMAIN call.units :
          /\ call.units[i].pc = "returned" /\ call.units[i].products # <<>>
          /\ call.units[j].pc = "cancelled"

\* C2: whatever the products, the failed sources, the cache-hit map and the
\* data age, the confidence_score assess_quality reports lies in [0.4, 0.9].
C2_ConfidenceBounds ==
    res # None => (40 <= res.confidence_score /\ res.confidence_score <= 90)

\* An assessment whose weighted sum lies below the floor and is reported as 0.4.
C2_Witness ==
    /\ res # None /\ arg # None /\ arg.op = "assess_quality"
    /\ res.confidence_score = 40
    /\ UnclampedConfidence(
          _calculate_base_confidence(arg.products, arg.sources_used, arg.errors),
          _calculate_freshness_score(arg.data_age),
          _calculate_reliability_score(arg.sources_used, arg.errors,
                                       arg.cache_hits)) < 400

\* C5: get(source, query) returns the stored payload whenever
\* now - cached_at <= ttl, exactly at ttl included, and leaves the store as it
\* is; whenever now - cached_at > ttl it returns absent and removes that entry
\* and no other; for a key that is not stored it returns absent.
C5_TtlBoundary ==
    [][arg'.op = "get" =>
          LET key == _make_key(arg'.source, arg'.query)
          IN  /\ (key \in DOMAIN cache /\ now - cache[key].timestamp <= cache_ttl) =>
                    (res' = cache[key].data /\ cache' = cache)
              /\ (key \in DOMAIN cache /\ now - cache[key].timestamp > cache_ttl) =>
                    /\ res' = None
                    /\ DOMAIN cache' = DOMAIN cache \ {key}
                    /\ \A k \in DOMAIN cache' : cache'[k] = cache[k]
              /\ key \notin DOMAIN cache => (res' = None /\ cache' = cache)]_vars

\* A get that returned the payload of an entry aged exactly ttl.
C5_Witness ==
    /\ arg # None /\ arg.op = "get" /\ res # None
    /\ LET key == _make_key(arg.source, arg.query)
       IN  /\ key \in DOMAIN cache
           /\ now - cache[key].timestamp = cache_ttl
           /\ res = cache[key].data
           /\ Cardinality(DOMAIN cache) > 1

\* C6 as stated, for calls that name every source once: total_sources = successful_sources + failed_sources,
\* failed_sources is the number of `errors`, summary.error_rate is
\* failed_sources / total_sources (0 with no source), and data_quality reports
\* the same error_rate and successful_sources.
C6_AsStated ==
    (/\ res # None /\ arg.op = "bundle"
     /\ \A i, j \in DOMAIN arg.units :
           arg.units[i].source = arg.units[j].source => i = j) =>
       LET sm == res.summary
           dq == res.data_quality
       IN  /\ sm.total_sources = sm.successful_sources + sm.failed_sources
           /\ sm.failed_sources = Len(res.errors)
           /\ IF sm.total_sources = 0 THEN sm.error_rate[1] = 0
              ELSE RatEq(sm.error_rate, <<sm.failed_sources, sm.total_sources>>)
           /\ RatEq(dq.error_rate, sm.error_rate)
           /\ dq.successful_sources = sm.successful_sources

\* C6 as amended: the counts are as stated and data_quality.error_rate is
\* exactly failed_sources / total_sources (0 with no source);
\* summary.error_rate is that ratio when the bundle has no products and that
\* ratio rounded to three decimals when it has some.
C6_Amended ==
    (res # None /\ arg.op = "bundle") =>
       LET sm == res.summary
           dq == res.data_quality
           exact == IF sm.total_sources = 0 THEN <<0, 1>>
                    ELSE <<sm.failed_sources, sm.total_sources>>
       IN  /\ sm.total_sources = Len(arg.units)
           /\ sm.total_sources = sm.successful_sources + sm.failed_sources
           /\ sm.failed_sources = Len(res.errors)
           /\ sm.failed_sources =
                 Cardinality({i \in DOMAIN arg.units : arg.units[i].pc = "raised"})
           /\ RatEq(dq.error_rate, exact)
           /\ dq.successful_sources = sm.successful_sources
           /\ IF res.results = <<>> THEN RatEq(sm.error_rate, exact)
              ELSE /\ sm.error_rate[2] = 1000
                   /\ 2 * (sm.error_rate[1] * exact[2] - 1000 * exact[1]) <= exact[2]
                   /\ 2 * (1000 * exact[1] - sm.error_rate[1] * exact[2]) <= exact[2]

\* A bundle with products in which one of three sources failed: 0.333.
C6_Witness ==
    /\ res # None /\ arg # None /\ arg.op = "bundle"
    /\ res.results # <<>>
    /\ res.summary.total_sources = 3 /\ res.summary.failed_sources = 1
    /\ res.summary.error_rate = <<333, 1000>>
    /\ res.data_quality.error_rate = <<1, 3>>

AllRaised(c) ==
    /\ IsSearch(c) /\ c.status = "returned"
    /\ \A i \in DOMAIN c.units : c.units[i].pc = "raised"

\* C7: when the fetch of every selected source fails, fallback_to_cache is
\* false and the deadline is not exceeded, search returns a bundle with
\* results == [] and one `errors` entry per selected source, in the order of
\* the selection.
C7_AllFail ==
    (AllRaised(call) /\ ~call.fallback_to_cache) =>
       /\ call.bundle # None
       /\ call.error = None
       /\ call.bundle.results = <<>>
       /\ Len(call.bundle.errors) = Len(call.sources_to_use)
       /\ \A i \in DOMAIN call.sources_to_use :
             /\ call.bundle.errors[i].source = call.sources_to_use[i]
             /\ call.bundle.errors[i].error =
                   UnitFailed("search", call.sources_to_use[i])

\* A returned search, without fallback, both of whose sources failed.
C7_Witness ==
    /\ AllRaised(call) /\ ~call.fallback_to_cache
    /\ Len(call.units) = 2
    /\ Len(call.bundle.errors) = 2

\* C8 as stated: when every requested source fails and the deadline is not
\* exceeded, the bundle reports zero successful sources, an error rate of
\* 100% and the confidence score 0.4.
C8_AsStated ==
    (AllRaised(call) /\ Len(call.units) > 0) =>
       /\ call.bundle.summary.successful_sources = 0
       /\ call.bundle.data_quality.successful_sources = 0
       /\ RatEq(call.bundle.summary.error_rate, <<1, 1>>)
       /\ RatEq(call.bundle.data_quality.error_rate, <<1, 1>>)
       /\ call.bundle.data_quality.confidence_score = 40

\* What the code reports there: zero successes, 100% errors, confidence 0.6.
C8_Witness ==
    /\ AllRaised(call) /\ Len(call.units) > 0
    /\ call.bundle.summary.successful_sources = 0
    /\ RatEq(call.bundle.summary.error_rate, <<1, 1>>)
    /\ call.bundle.data_quality.confidence_score = 60

\* The number of entries of `errors` that name source s.
ErrorCount(errors, s) == Cardinality({e \in DOMAIN errors : errors[e].source = s})

\* C9: a unit whose fetch fails while fallback_to_cache is set looks the
\* cache up again and accepts the entry get returns, up to the age ttl: it
\* then succeeds with that payload, cache_hit true, the original timestamp
\* and the fallback marker, and adds nothing to `errors`; it raises, and the
\* failure is reported in `errors` under the name of the source, only when
\* fallback_to_cache is false or get returns no entry.  A unit that succeeds
\* without the marker carries the time of its own fetch.
C9_Fallback ==
    [][\A i \in 1..MaxSources :
          (/\ IsSearch(call) /\ call.status = "waiting"
           /\ i \in DOMAIN call.units /\ call.units[i].pc = "running"
           /\ Finished(call'.units[i])) =>
             LET u  == call.units[i]
                 u2 == call'.units[i]
                 d  == CacheGet(cache, u.source, call.query, now)
             IN  /\ u2.pc = "raised" =>
                       /\ ~call.fallback_to_cache \/ d = None
                       /\ ~u2.cache_hit /\ ~u2.fallback
                 /\ (u2.pc = "returned" /\ u2.fallback) =>
                       /\ call.fallback_to_cache /\ d # None
                       /\ u2.products = d.products
                       /\ u2.timestamp = d.timestamp
                       /\ u2.cache_hit
                       /\ now - d.timestamp <= cache_ttl
                 /\ (u2.pc = "returned" /\ ~u2.fallback) =>
                       (u2.timestamp = now /\ ~u2.cache_hit)
                 /\ call'.status = "returned" =>
                       /\ ErrorCount(call'.bundle.errors, u.source) =
                             Cardinality({j \in UnitsOf(call', u.source) :
                                             call'.units[j].pc = "raised"})
                       /\ u2.pc = "raised" =>
                             \E e \in DOMAIN call'.bundle.errors :
                                call'.bundle.errors[e] =
                                   [source |-> u.source,
                                    error |-> UnitFailed("search", u.source)]
                       /\ (u2.fallback /\ UnitsOf(call', u.source) = {i}) =>
                             /\ ErrorCount(call'.bundle.errors, u.source) = 0
                             /\ call'.bundle.source_results[u.source].cache_hit
                             /\ call'.bundle.source_results[u.source].products
                                   = d.products
                             /\ call'.bundle.source_results[u.source].timestamp
                                   = d.timestamp]_vars

\* A returned search whose only source failed and was served by fallback
\* from an entry aged exactly ttl.
C9_Witness ==
    /\ IsSearch(call) /\ call.status = "returned"
    /\ Len(call.units) = 1
    /\ call.units[1].fallback /\ call.units[1].cache_hit
    /\ call.units[1].products # <<>>
    /\ now - call.units[1].timestamp = cache_ttl
    /\ call.bundle.errors = <<>>

\* C10: once a call has timed out, a unit that was outstanding at the
\* deadline never writes to the cache, not even when its fetch ends later in
\* its worker thread, and it counts neither as a success nor as an error: the
\* timeout leaves the cache as it is, turns every outstanding unit into a
\* cancelled one and yields no bundle, and the end of an abandoned fetch
\* changes neither the cache nor the outcome of any unit.
C10_CancelledUnits ==
    [][/\ (call.status = "waiting" /\ call'.status = "raised") =>
             /\ cache' = cache
             /\ call'.bundle = None
             /\ \A i \in DOMAIN call.units :
                   IF Finished(call.units[i])
                   THEN call'.units[i] = call.units[i]
                   ELSE call'.units[i].pc = "cancelled"
             /\ zombies' = zombies + Cardinality({i \in DOMAIN call.units :
                                                     call.units[i].pc = "running"})
       /\ zombies' < zombies =>
             /\ cache' = cache
             /\ call'.status = call.status
             /\ call.status = "waiting" =>
                   \A i \in DOMAIN call.units :
                      /\ call'.units[i].pc = call.units[i].pc
                            \/ (call.units[i].pc = "queued"
                                /\ call'.units[i].pc = "running")
                      /\ call'.units[i].products = call.units[i].products]_vars

\* A search with caching on has timed out: one unit had stored its result,
\* the fetch of the other is abandoned in its worker and nothing is cached
\* for it.
C10_Witness ==
    /\ IsSearch(call) /\ call.status = "raised" /\ call.use_cache
    /\ zombies > 0
    /\ \E i, j \in DOMAIN call.units :
          /\ call.units[i].pc = "cancelled" /\ call.units[i].invoked
          /\ _make_key(call.units[i].source, call.query) \notin DOMAIN cache
          /\ call.units[j].pc = "returned"
          /\ _make_key(call.units[j].source, call.query) \in DOMAIN cache

\* The number of fetches the call in flight has started for source s.
InvokedIn(c, s) == Cardinality({i \in UnitsOf(c, s) : c.units[i].invoked})

Occurrences(names, s) == Cardinality({i \in DOMAIN names : names[i] = s})

\* C4 as stated, for calls that name every source once: of two searches made
\* one after the other with identical (query, sources) and use_cache=true, the
\* second within ttl of the first and with no clear in between, the second
\* reports cache_hit true for every source that succeeded in the first, and
\* the fetch of that source is invoked exactly once across both calls.
C4_AsStated ==
    (/\ prev.valid /\ IsSearch(call) /\ call.status = "returned"
     /\ call.use_cache /\ ~call.cleared
     /\ call.sources = prev.sources
     /\ \A s \in ArgNames : Occurrences(call.sources, s) <= 1
     /\ call.start_time - prev.start_time <= cache_ttl) =>
       \A s \in prev.succeeded :
          /\ call.bundle.source_results[s].cache_hit
          /\ prev.invoked[s] + InvokedIn(call, s) = 1

\* C4 as amended: when a search with use_cache=true has returned, no clear
\* has happened since it started, and the next search (same query,
\* use_cache=true) starts within ttl of the moment the first one fetched and
\* stored the result of a source, then every unit of that source in the
\* second search is a cache hit carrying that moment as its timestamp, the
\* second search invokes no fetch of that source, and the first one invoked
\* it once for every time the source is named in its `sources`.
C4_Amended ==
    (prev.valid /\ IsSearch(call) /\ call.use_cache) =>
       \A s \in DOMAIN prev.fetched_at :
          (/\ prev.fetched_at[s] >= 0
           /\ call.start_time - prev.fetched_at[s] <= cache_ttl) =>
             /\ \A i \in UnitsOf(call, s) :
                   /\ call.units[i].pc = "returned"
                   /\ call.units[i].cache_hit /\ ~call.units[i].fallback
                   /\ call.units[i].timestamp = prev.fetched_at[s]
                   /\ call.units[i].products = Listing(s, call.query)
             /\ InvokedIn(call, s) = 0
             /\ prev.invoked[s] = Occurrences(prev.sources, s)
             /\ (call.status = "returned" /\ UnitsOf(call, s) # {}) =>
                   /\ call.bundle.source_results[s].cache_hit
                   /\ call.bundle.source_results[s].timestamp = prev.fetched_at[s]

\* The second search starts exactly ttl after the first one fetched a source
\* and is served from the cache.
C4_Witness ==
    /\ prev.valid /\ IsSearch(call) /\ call.status = "returned" /\ call.use_cache
    /\ call.sources = prev.sources
    /\ \E s \in DOMAIN prev.fetched_at :
          /\ prev.fetched_at[s] >= 0
          /\ call.start_time - prev.fetched_at[s] = cache_ttl
          /\ prev.invoked[s] = 1
          /\ UnitsOf(call, s) # {}
          /\ call.bundle.source_results[s].cache_hit
          /\ call.bundle.source_results[s].products # <<>>

-----------------------------------------------------------------------------
(* Selection of sources *)

\* The requested names that are configured.
Selected(c) == {s \in Range(c.sources) : s \in available_sources}

\* C11: a search called with an explicit `sources` list works on the
\* requested names that are configured and on nothing else: every unit of the
\* call, hence every fetch it invokes, belongs to such a name, and in the
\* returned bundle the keys of source_results are exactly these names, while
\* total_sources (in the summary and in data_quality) counts the requested
\* occurrences of these names only and equals successful + failed sources.
C11_SelectedOnly ==
    IsSearch(call) =>
      /\ \A i \in DOMAIN call.units : call.units[i].source \in Selected(call)
      /\ \A s \in available_sources \ Selected(call) : InvokedIn(call, s) = 0
      /\ call.status = "returned" =>
            LET b == call.bundle
                n == Cardinality({i \in DOMAIN call.sources :
                                     call.sources[i] \in available_sources})
            IN  /\ DOMAIN b.source_results = Selected(call)
                /\ b.summary.total_sources = n
                /\ b.data_quality.source_coverage = n
                /\ b.summary.successful_sources + b.summary.failed_sources = n
                /\ b.summary.failed_sources = Len(b.errors)
                /\ \A i \in DOMAIN b.errors : b.errors[i].source \in Selected(call)

\* A returned search for Ozon alone: Ozon was fetched, Wildberries is no key
\* of source_results and is not counted.
C11_Witness ==
    /\ IsSearch(call) /\ call.status = "returned"
    /\ call.sources = <<"ozon">>
    /\ call.units[1].invoked
    /\ DOMAIN call.bundle.source_results = {"ozon"}
    /\ call.bundle.summary.total_sources = 1

\* C12: names in `sources` that are not configured are dropped in silence, by
\* search and by get_trends alike: no unit is launched for them, the call
\* raises nothing but the timeout error, and in the returned bundle they are
\* no key of source_results (or trend_results), have no entry in `errors` and
\* are not counted in total_sources.  A call whose names are all unknown
\* returns at once, with no results, no errors and error rate 0.
C12_UnknownDropped ==
    call.status # "idle" =>
      LET n == Cardinality({i \in DOMAIN call.sources :
                               call.sources[i] \in available_sources})
          b == call.bundle
      IN  /\ Len(call.units) = n
          /\ \A i \in DOMAIN call.units : call.units[i].source \in available_sources
          /\ call.status = "raised" => call.error = TimedOut(call.kind, call.timeout)
          /\ call.status = "returned" =>
                /\ \A i \in DOMAIN b.errors : b.errors[i].source \in available_sources
                /\ call.kind = "search" =>
                      /\ DOMAIN b.source_results \subseteq available_sources
                      /\ b.summary.total_sources = n
                /\ call.kind = "trends" =>
                      DOMAIN b.trend_results \subseteq available_sources
          /\ Selected(call) = {} =>
                /\ call.status = "returned"
                /\ b.errors = <<>>
                /\ call.kind = "search" =>
                      /\ b.results = <<>>
                      /\ DOMAIN b.source_results = {}
                      /\ b.summary.total_sources = 0
                      /\ b.summary.total_products = 0
                      /\ RatEq(b.summary.error_rate, <<0, 1>>)
                      /\ RatEq(b.data_quality.error_rate, <<0, 1>>)
                /\ call.kind = "trends" =>
                      /\ DOMAIN b.trend_results = {}
                      /\ b.average_trend_score = 0

\* A search that names an unknown source next to Ozon has returned with Ozon
\* alone in its bundle.
C12_Witness ==
    /\ IsSearch(call) /\ call.status = "returned"
    /\ call.sources = <<"avito", "ozon">>
    /\ DOMAIN call.bundle.source_results = {"ozon"}
    /\ call.bundle.errors = <<>>
    /\ call.bundle.summary.total_sources = 1

-----------------------------------------------------------------------------
(* Timestamps of cached data *)

\* Unit i of the call has become a cache hit (tier 1 or fallback) in this step.
BecomesHit(i) ==
    /\ call'.units[i].cache_hit
    /\ call.status = "idle" \/ ~call.units[i].cache_hit

\* C13: the timestamp a cache hit reports is the time at which the payload
\* was fetched and stored, not the time of the call.  In every step: time
\* does not run backwards; an entry that is written carries the time of that
\* step; a unit that becomes a cache hit takes the timestamp of the payload
\* found in the store, which is not in the future, and the lookup leaves that
\* entry as it was, so that the next hit on it reports the same timestamp;
\* and the bundle of a call that returns reports for every such source the
\* timestamp of its unit and computes the data age as the mean of
\* (time of return - timestamp).  Hence over repeated hits on an entry the
\* reported timestamp is constant and the data age does not decrease.
C13_HitTimestamp ==
    [][/\ now' >= now
       /\ \A key \in DOMAIN cache' :
             (key \notin DOMAIN cache \/ cache'[key] # cache[key]) =>
                 /\ cache'[key].timestamp = now
                 /\ cache'[key].data.timestamp = now
       /\ IsSearch(call') =>
             \A i \in DOMAIN call'.units :
                BecomesHit(i) =>
                   LET key == _make_key(call'.units[i].source, call'.query)
                   IN  /\ key \in DOMAIN cache
                       /\ call'.units[i].timestamp = cache[key].data.timestamp
                       /\ call'.units[i].timestamp <= now
                       /\ key \in DOMAIN cache' /\ cache'[key] = cache[key]
       /\ (IsSearch(call') /\ call'.status = "returned" /\ call.status # "returned") =>
             LET b     == call'.bundle
                 sr    == b.source_results
                 timed == {s \in DOMAIN sr : "timestamp" \in DOMAIN sr[s]}
                 ages  == [s \in timed |-> b.timestamp - sr[s].timestamp]
             IN  /\ b.timestamp = now
                 /\ \A s \in DOMAIN sr :
                       sr[s].cache_hit =>
                          /\ sr[s].timestamp = LastUnit(call'.units, s).timestamp
                          /\ LastUnit(call'.units, s).cache_hit
                 /\ timed # {} =>
                       RatEq(b.data_quality.data_age_seconds,
                             <<SumOver(ages, timed), Cardinality(timed)>>)
      ]_vars

\* A search has returned a tier-1 hit for Wildberries alone whose payload was
\* fetched two time units before the call: the reported timestamp is that of
\* the payload in the store and the data age is 2.
C13_Witness ==
    /\ IsSearch(call) /\ call.status = "returned"
    /\ call.sources = <<"wildberries">>
    /\ call.units[1].cache_hit /\ ~call.units[1].fallback
    /\ call.start_time = now
    /\ _make_key("wildberries", call.query) \in DOMAIN cache
    /\ cache[_make_key("wildberries", call.query)].data.timestamp = now - 2
    /\ call.bundle.source_results["wildberries"].timestamp = now - 2
    /\ call.bundle.data_quality.data_age_seconds = <<2, 1>>

-----------------------------------------------------------------------------
(* Statistics of the merged listings *)

\* The products gathered from the units that returned.
Gathered == AllProducts(arg.units)

Malformed(products) == \E i \in DOMAIN products : ~HasPrice(products[i])

\* C14 as stated: a failure in the statistics or in the quality assessor,
\* such as the one a product without a price causes, never aborts the
\* search: the result processing still yields a bundle, whose confidence is
\* the floor 0.4 when a product was malformed.
C14_AsStated ==
    res # None =>
      /\ ErrorOf(res) = None
      /\ Malformed(Gathered) => res.data_quality.confidence_score = 40

\* The result processing has raised TypeError on a list in which the price
\* of one product is None.
C14_Witness ==
    /\ res = Raised("TypeError")
    /\ Malformed(Gathered)
    /\ Len(Gathered) = 1

\* The result processing has produced a bundle with products.
Bundled == res # None /\ ErrorOf(res) = None /\ res.results # <<>>

PricesOf(products) == [i \in DOMAIN products |-> products[i].price]

\* C15 as stated: in every bundle with products, average_price is exactly
\* sum(prices) / count, min_price <= average_price <= max_price, and
\* min_price and max_price are the least and the greatest price of the flat
\* list.  (The summary holds prices in hundredths.)
C15_AsStated ==
    Bundled =>
      LET prices == PricesOf(res.results)
          sm     == res.summary
      IN  /\ sm.average_price * Len(prices) = 100 * SumSeq(prices)
          /\ sm.min_price <= sm.average_price
          /\ sm.average_price <= sm.max_price
          /\ sm.min_price = 100 * MinOf(Range(prices))
          /\ sm.max_price = 100 * MaxOf(Range(prices))

\* C15 amended: average_price is sum(prices) / count rounded to two decimals,
\* so it lies within 0.005 of the exact mean; the bounds by min_price and
\* max_price hold as stated.
C15_Amended ==
    Bundled =>
      LET prices == PricesOf(res.results)
          sm     == res.summary
          off    == sm.average_price * Len(prices) - 100 * SumSeq(prices)
      IN  /\ 2 * off <= Len(prices) /\ -2 * off <= Len(prices)
          /\ sm.min_price <= sm.average_price
          /\ sm.average_price <= sm.max_price
          /\ sm.min_price = 100 * MinOf(Range(prices))
          /\ sm.max_price = 100 * MaxOf(Range(prices))

\* Three products priced 200, 200 and 100: the mean 166.666... is reported as
\* 166.67.
C15_Witness ==
    /\ Bundled
    /\ Len(res.results) = 3
    /\ SumSeq(PricesOf(res.results)) = 500
    /\ res.summary.average_price = 16667
    /\ res.summary.min_price = 10000 /\ res.summary.max_price = 20000

\* The units of the drawn results that returned, and what they returned.
ReturnedUnits == {i \in DOMAIN arg.units : arg.units[i].pc = "returned"}

ReturnedCount ==
    SumSeq([i \in DOMAIN arg.units |->
               IF i \in ReturnedUnits THEN Len(arg.units[i].products) ELSE 0])

ReturnedIds ==
    UNION {{arg.units[i].products[j].id : j \in DOMAIN arg.units[i].products} :
              i \in ReturnedUnits}

\* C16 as stated: the flat list is not deduplicated: total_products is the
\* number of products returned by all units that succeeded, duplicates
\* included, unique_products is the number of distinct id values among
\* them, and unique_products <= total_products.
C16_AsStated ==
    (res # None /\ ErrorOf(res) = None) =>
      /\ Len(res.results) = ReturnedCount
      /\ res.summary.total_products = ReturnedCount
      /\ res.summary.unique_products = Cardinality(ReturnedIds)
      /\ res.summary.unique_products <= res.summary.total_products

\* C16 amended: as stated, with unique_products the number of distinct
\* non-empty id values.
C16_Amended ==
    (res # None /\ ErrorOf(res) = None) =>
      /\ Len(res.results) = ReturnedCount
      /\ res.summary.total_products = ReturnedCount
      /\ res.summary.unique_products = Cardinality(ReturnedIds \ {""})
      /\ res.summary.unique_products <= res.summary.total_products

\* Both sources list a product with id "a" and one of them a product "b":
\* three products in total, two unique.
C16_Witness ==
    /\ res # None /\ ErrorOf(res) = None
    /\ ReturnedUnits = {1, 2}
    /\ \E j \in DOMAIN arg.units[1].products, k \in DOMAIN arg.units[2].products :
          arg.units[1].products[j].id = arg.units[2].products[k].id
    /\ ReturnedIds = {"a", "b"}
    /\ res.summary.total_products = 3
    /\ res.summary.unique_products = 2

\* The group of a product when an absent and an empty brand both count as
\* "Unknown".
BrandOrUnknown(product) ==
    IF BrandOf(product) = "" THEN "Unknown" ELSE BrandOf(product)

HasBrandOrNone(product) == BrandOf(product) # ""

Always(product) == TRUE

\* The brand distribution of the summary is the grouping of the products
\* accepted by Counted under Label: brand_diversity is the number of groups,
\* top_brands lists min(5, groups) distinct groups with their sizes in
\* non-increasing order, no group left out is larger than a listed one, and
\* when all groups are listed their sizes sum to `total`.
BrandDistribution(Counted(_), Label(_), total) ==
    LET ps       == res.results
        counted  == {i \in DOMAIN ps : Counted(ps[i])}
        labels   == {Label(ps[i]) : i \in counted}
        size(b)  == Cardinality({i \in counted : Label(ps[i]) = b})
        top      == res.summary.top_brands
    IN  /\ res.summary.brand_diversity = Cardinality(labels)
        /\ Len(top) = Min(5, Cardinality(labels))
        /\ \A i \in DOMAIN top :
              top[i].brand \in labels /\ top[i].count = size(top[i].brand)
        /\ \A i, j \in DOMAIN top :
              i < j => (top[i].count >= top[j].count /\ top[i].brand # top[j].brand)
        /\ \A b \in labels \ {top[i].brand : i \in DOMAIN top} :
              \A i \in DOMAIN top : size(b) <= top[i].count
        /\ Cardinality(labels) <= 5 =>
              SumSeq([i \in DOMAIN top |-> top[i].count]) = total

\* C17 as stated: the brand distribution groups every product by its brand,
\* a product whose brand is absent or empty falling under "Unknown":
\* brand_diversity counts the groups including "Unknown", top_brands holds
\* at most the 5 largest groups in non-increasing order of count, and the
\* group counts sum to total_products.
C17_AsStated ==
    Bundled =>
      BrandDistribution(Always, BrandOrUnknown, res.summary.total_products)

\* What the summary does instead: the same distribution over the products
\* whose brand is not the empty string, which alone are counted.
BrandsOfNonEmpty ==
    Bundled =>
      BrandDistribution(HasBrandOrNone, BrandOf,
                        Cardinality({i \in DOMAIN res.results :
                                        HasBrandOrNone(res.results[i])}))

\* Two products of brand Acme and one whose brand is the empty string: the
\* summary reports one brand, and its counts sum to 2 of 3 products.
C17_Witness ==
    /\ Bundled
    /\ res.summary.total_products = 3
    /\ Cardinality({i \in DOMAIN res.results : BrandOf(res.results[i]) = "Acme"}) = 2
    /\ Cardinality({i \in DOMAIN res.results : BrandOf(res.results[i]) = ""}) = 1
    /\ res.summary.brand_diversity = 1
    /\ res.summary.top_brands = <<[brand |-> "Acme", count |-> 2]>>

-----------------------------------------------------------------------------
(* Searches that find nothing *)

\* Every unit of the call has finished and none has delivered a product.
NothingFound(c) ==
    \A i \in DOMAIN c.units :
        /\ Finished(c.units[i])
        /\ c.units[i].pc = "returned" => c.units[i].products = <<>>

\* C18: a search whose selected sources deliver no product at all, having
\* returned empty lists or failed, returns a bundle and raises nothing; in
\* it results is empty, total_products and unique_products are 0, average,
\* min and max price are 0 and price_range is "0 - 0".
C18_NoProducts ==
    (IsSearch(call) /\ NothingFound(call)) =>
      /\ call.status = "returned"
      /\ call.error = None
      /\ call.bundle.results = <<>>
      /\ call.bundle.summary.total_products = 0
      /\ call.bundle.summary.unique_products = 0
      /\ call.bundle.summary.average_price = 0
      /\ call.bundle.summary.min_price = 0
      /\ call.bundle.summary.max_price = 0
      /\ call.bundle.summary.price_range = "0 - 0"

\* A search of Wildberries and Ozon has returned after Wildberries failed
\* and Ozon found nothing.
C18_Witness ==
    /\ IsSearch(call) /\ NothingFound(call)
    /\ call.sources = <<"wildberries", "ozon">>
    /\ call.units[1].pc = "raised"
    /\ call.units[2].pc = "returned"
    /\ call.status = "returned"
    /\ call.bundle.summary.price_range = "0 - 0"

-----------------------------------------------------------------------------
(* The cache API *)

CacheKeys == {_make_key(source, query) : source \in CacheSources, query \in CacheQueries}

\* C19: set(source, query, payload) writes the entry of its key whether or
\* not one is stored, with the payload and the current time, and touches no
\* other entry; no other operation writes or alters an entry; the store holds
\* at most one entry per (source, query) pair, all under keys of such pairs;
\* and a get within ttl of the time of the stored entry returns its payload.
\* Hence a get within ttl of the latest set of a key returns the payload of
\* that set.
C19_SetOverwrites ==
    [][/\ arg'.op = "set" =>
             LET key == _make_key(arg'.source, arg'.query)
             IN  /\ DOMAIN cache' = DOMAIN cache \cup {key}
                 /\ cache'[key].data = arg'.data
                 /\ cache'[key].timestamp = now
                 /\ \A k \in DOMAIN cache \ {key} : cache'[k] = cache[k]
       /\ arg'.op # "set" =>
             \A k \in DOMAIN cache' : k \in DOMAIN cache /\ cache'[k] = cache[k]
       /\ DOMAIN cache' \subseteq CacheKeys
       /\ Cardinality(DOMAIN cache') <= Cardinality(CacheSources \X CacheQueries)
       /\ arg'.op = "get" =>
             LET key == _make_key(arg'.source, arg'.query)
             IN  (key \in DOMAIN cache /\ now - cache[key].timestamp <= cache_ttl) =>
                     res' = cache[key].data
      ]_vars

\* A set at the last instant has written its payload with the current time,
\* and the store holds one entry for each of the four pairs.
C19_Witness ==
    /\ arg # None /\ arg.op = "set"
    /\ now = MaxTime
    /\ DOMAIN cache = CacheKeys
    /\ Cardinality(DOMAIN cache) = 4
    /\ cache[_make_key(arg.source, arg.query)].data = arg.data
    /\ cache[_make_key(arg.source, arg.query)].timestamp = now
    /\ \E k \in DOMAIN cache : cache[k].timestamp < now

\* C20: pairs (source, query) that differ in the source or in the exact
\* query string have different keys, and a set or a get (with the eviction
\* it may perform) on one pair leaves the entry of every other pair, and
\* what a get of that pair returns, unchanged.
C20_NoAliasing ==
    [][arg'.op \in {"get", "set"} =>
          \A source \in CacheSources, query \in CacheQueries :
              <<source, query>> # <<arg'.source, arg'.query>> =>
                 LET other == _make_key(source, query)
                 IN  /\ other # _make_key(arg'.source, arg'.query)
                     /\ other \in DOMAIN cache' <=> other \in DOMAIN cache
                     /\ other \in DOMAIN cache => cache'[other] = cache[other]
                     /\ CacheGet(cache', source, query, now)
                           = CacheGet(cache, source, query, now)
      ]_vars

\* A set for the query "Q1 " next to an entry of the same source for "q1"
\* that holds another payload, written earlier.
C20_Witness ==
    /\ arg # None /\ arg.op = "set" /\ arg.query = "Q1 "
    /\ _make_key(arg.source, "q1") \in DOMAIN cache
    /\ cache[_make_key(arg.source, "q1")].data # arg.data
    /\ cache[_make_key(arg.source, "q1")].timestamp < now
    /\ cache[_make_key(arg.source, "Q1 ")].data = arg.data

-----------------------------------------------------------------------------
(* Expiry *)

Age(c, k) == now - c[k].timestamp

\* C21 as stated: in every reachable state every entry held in the store has
\* age now - timestamp <= ttl.
C21_AsStated ==
    \A k \in DOMAIN cache : Age(cache, k) <= cache_ttl

\* C21 amended: no entry is served past its ttl, and expiry is enforced when
\* the store is read or swept, not as time passes: a get returns a payload
\* only of an entry aged at most ttl, after a get the entry of its key, if
\* one is left, is aged at most ttl, and after a cleanup every entry is.
C21_Amended ==
    [][/\ arg'.op = "get" =>
             LET key == _make_key(arg'.source, arg'.query)
             IN  /\ res' # None =>
                       (key \in DOMAIN cache /\ Age(cache, key) <= cache_ttl)
                 /\ key \in DOMAIN cache' => Age(cache', key) <= cache_ttl
       /\ arg'.op = "cleanup" =>
             \A k \in DOMAIN cache' : Age(cache', k) <= cache_ttl
      ]_vars

\* A get has just evicted the expired entry of its key while the entry of
\* another key, equally expired, is still in the store.
C21_Witness ==
    /\ arg # None /\ arg.op = "get" /\ res = None
    /\ _make_key(arg.source, arg.query) \notin DOMAIN cache
    /\ \E k \in DOMAIN cache : Age(cache, k) > cache_ttl
    /\ now = MaxTime

-----------------------------------------------------------------------------
(* The cache under concurrent use *)

\* Thread t reaches the end of the with-block of operation op in this step.
Finishes(t, op) ==
    /\ threads[t].op = op
    /\ threads[t].pc # "exit"
    /\ threads'[t].pc = "exit"

\* C22: whatever the interleaving of get, set, clear and cleanup in several
\* threads, the operations on a key take effect one at a time.  A get that
\* ends returns absent, and then the key is not stored, or it returns the
\* payload of the entry stored at that moment, which had not expired when
\* the get looked at the clock; an entry changes only by the store of a set,
\* to the whole item that set built from its payload; no operation raises;
\* at most the holder of the lock is inside a with-block; and when every
\* thread is back outside the cache the lock is free.
C22_Serialized ==
    [][/\ \A t \in Threads :
             /\ Finishes(t, "get") =>
                   LET r == threads'[t].result
                   IN  /\ r = None => SharedKey \notin DOMAIN cache'
                       /\ r # None =>
                             /\ SharedKey \in DOMAIN cache'
                             /\ r = cache'[SharedKey].data
                             /\ r \in Payloads
                             /\ threads'[t].current_time
                                   <= cache'[SharedKey].timestamp + cache_ttl
             /\ ErrorOf(threads'[t].result) = None
             /\ threads'[t].pc \notin {"idle", "enter"} => lock' = Held(t)
       /\ \A k \in DOMAIN cache' :
             (k \notin DOMAIN cache \/ cache'[k] # cache[k]) =>
                 \E t \in Threads : /\ Finishes(t, "set")
                                    /\ cache'[k] = threads[t].item
                                    /\ cache'[k].data \in Payloads
       /\ (\A t \in Threads : threads'[t].pc = "idle") => lock' = None
      ]_vars

\* A get holds the lock and is about to return a payload while another
\* thread, which built an item with a different payload, waits at the lock.
C22_Witness ==
    /\ threads # <<>>
    /\ \E t, u \in Threads :
          /\ threads[t].op = "get" /\ threads[t].pc = "exit"
          /\ threads[t].result # None
          /\ lock = Held(t)
          /\ threads[u].op = "set" /\ threads[u].pc = "enter"
          /\ threads[u].item.data # threads[t].result

-----------------------------------------------------------------------------
(* The rate limiter under concurrent use *)

\* C23 as stated: in whatever way the threads that call the limiter of one
\* source interleave, two consecutive admitted requests are at least the
\* minimum spacing apart.
C23_AsStated ==
    (limiter # None /\ limiter.admitted >= 2) => limiter.gap >= min_spacing

\* Two requests have been admitted at the same instant, the first requests
\* the source has seen.
C23_Witness ==
    /\ limiter # None
    /\ limiter.admitted = 2
    /\ limiter.gap = 0

-----------------------------------------------------------------------------
(* The average of get_trends *)

\* The names whose fetch, the last one of the name, succeeded.
Succeeded(units) ==
    {s \in {units[i].source : i \in DOMAIN units} :
        LastUnit(units, s).pc = "returned"}

ScoreSum(units) ==
    SumOver([s \in Succeeded(units) |-> LastUnit(units, s).products.trend_score],
            Succeeded(units))

Averaged == arg # None /\ arg.op = "trends" /\ res # None

\* A failing fetch never makes the call raise, and every failing fetch has
\* its entry in `errors`.
FailuresListed ==
    /\ "raised" \notin DOMAIN res
    /\ \A i \in DOMAIN arg.units :
          arg.units[i].pc = "raised" =>
             \E j \in DOMAIN res.errors : res.errors[j].source = arg.units[i].source
    /\ Len(res.errors)
          = Cardinality({i \in DOMAIN arg.units : arg.units[i].pc = "raised"})

\* C24 as stated: average_trend_score is the mean of the trend_score values
\* of exactly the sources whose get_trends succeeded, 0.0 when none did;
\* each failing source is listed in errors and carries only an error in
\* trend_results; the call does not raise.
C24_AsStated ==
    Averaged =>
       /\ FailuresListed
       /\ \A i \in DOMAIN arg.units :
             arg.units[i].pc = "raised" =>
                DOMAIN res.trend_results[arg.units[i].source] = {"error"}
       /\ res.average_trend_score * Cardinality(Succeeded(arg.units))
             = 10 * ScoreSum(arg.units)

\* C24, amended: average_trend_score is the mean of the trend_score values
\* of exactly the sources whose entry in trend_results is a success, rounded
\* to three decimals (within 0.0005 of the mean), and 0.0 when there is
\* none; every failing fetch is listed in errors, a source whose fetch (the
\* last one, when it is named twice) failed carries only an error in
\* trend_results, and the call does not raise.
C24_Amended ==
    Averaged =>
       LET won == Succeeded(arg.units)
       IN  /\ FailuresListed
           /\ DOMAIN res.trend_results = {arg.units[i].source : i \in DOMAIN arg.units}
           /\ \A s \in DOMAIN res.trend_results :
                 IF s \in won
                 THEN /\ "error" \notin DOMAIN res.trend_results[s]
                      /\ res.trend_results[s].trend_score
                           = LastUnit(arg.units, s).products.trend_score
                 ELSE DOMAIN res.trend_results[s] = {"error"}
           /\ won = {} => res.average_trend_score = 0
           /\ LET d == res.average_trend_score * Cardinality(won)
                        - 10 * ScoreSum(arg.units)
              IN  2 * d <= Cardinality(won) /\ -2 * d <= Cardinality(won)

\* Three sources were asked, two succeeded with 0.5 and 0.7, one failed: the
\* average is 0.6 and the failure is listed.
C24_Witness ==
    /\ Averaged
    /\ Len(arg.units) = 3
    /\ Cardinality(Succeeded(arg.units)) = 2
    /\ ScoreSum(arg.units) = 120
    /\ Len(res.errors) = 1
    /\ res.average_trend_score = 600

-----------------------------------------------------------------------------
(* The aggregator as a context manager *)

\* C25: once the with-block has been left, on whatever path, close() has
\* been called and has shut down the worker pool and closed Wildberries,
\* Ozon, Yandex and Google Trends; nothing is released while the body runs.
C25_ClosedOnExit ==
    /\ threads # <<>> /\ threads[1].pc = "outside" =>
          closed = {Owned[i] : i \in DOMAIN Owned}
    /\ threads # <<>> /\ threads[1].pc = "inside" => closed = {}

\* The body was left by an exception, and the block is behind with the pool
\* and the four sources closed.
C25_Witness ==
    /\ threads # <<>>
    /\ threads[1].pc = "outside"
    /\ threads[1].exc
    /\ closed = {"executor", "wildberries", "ozon", "yandex", "google_trends"}

-----------------------------------------------------------------------------
(* Searches that bypass the cache *)

Bypassing(c) == IsSearch(c) /\ ~c.use_cache

\* C26 as stated: a search with use_cache = false that has ended has invoked
\* the fetch of each selected source exactly once, a live entry of the cache
\* notwithstanding.
C26_AsStated ==
    (Bypassing(call) /\ call.status \in {"returned", "raised"}) =>
       \A i \in DOMAIN call.units : call.units[i].invoked

\* C26, amended: a search with use_cache = false serves no unit from the
\* cache at lookup; when it returns a bundle it has invoked the fetch of
\* every selected source exactly once; when it times out it has invoked each
\* at most once, and the fetches it did not invoke are those that were still
\* waiting for a worker and were cancelled.
C26_Amended ==
    Bypassing(call) =>
       /\ \A i \in DOMAIN call.units :
             /\ call.units[i].cache_hit => call.units[i].fallback
             /\ ~call.units[i].invoked => call.units[i].pc \in {"queued", "cancelled"}
             /\ Finished(call.units[i]) => call.units[i].invoked
       /\ call.status = "returned" =>
             \A i \in DOMAIN call.units : call.units[i].invoked
       /\ Len(call.units) = Len(call.sources_to_use)

\* A search of Wildberries with use_cache = false has returned a listing
\* fetched now although the cache holds a live entry for the same source and
\* query, stored earlier.
C26_Witness ==
    /\ Bypassing(call) /\ call.status = "returned"
    /\ call.sources = <<"wildberries">>
    /\ call.units[1].invoked /\ ~call.units[1].cache_hit
    /\ call.units[1].timestamp = now
    /\ CacheGet(cache, "wildberries", call.query, call.start_time) # None
    /\ cache[_make_key("wildberries", call.query)].timestamp < call.start_time

-----------------------------------------------------------------------------
(* The worker pool *)

\* The fetches executing in workers of the pool: those of the call in
\* flight and those left running by calls that timed out.
Executing ==
    zombies + (IF call.status = "idle" THEN 0
               ELSE Cardinality({i \in DOMAIN call.units :
                                    call.units[i].pc = "running"}))

Waiting ==
    IF call.status = "idle" THEN {}
    ELSE {i \in DOMAIN call.units : call.units[i].pc = "queued"}

\* C27: at every moment at most max_workers fetches of one aggregator run at
\* the same time, fetches left behind by earlier calls included, and a unit
\* waits for a worker only while all max_workers workers are busy.
C27_PoolBound ==
    /\ Executing <= max_workers
    /\ Waiting # {} => Executing = max_workers
    /\ call.status = "waiting" => Waiting = Range(queue)

\* All three workers are busy, two of them with fetches abandoned by an
\* earlier call, and a unit of the present call waits for a worker.
C27_Witness ==
    /\ call.status = "waiting"
    /\ zombies = 2
    /\ Executing = max_workers
    /\ Waiting = {2}

-----------------------------------------------------------------------------
(* Termination of a call *)

Completed(c) ==
    \/ c.status = "returned"
    \/ c.status = "raised" /\ c.error = TimedOut(c.kind, c.timeout)

\* C28: every search or get_trends call that has started eventually returns
\* a bundle or raises the timeout error, whether or not its fetches ever
\* end and whether or not a worker is free for them.
C28_Completes == (call.status = "waiting") ~> Completed(call)

\* A call found all three workers occupied by fetches abandoned by earlier
\* calls; none of its fetches was ever started, and it has raised the
\* timeout error at its deadline.
C28_Witness ==
    /\ call.status = "raised"
    /\ call.error = TimedOut(call.kind, call.timeout)
    /\ now = call.start_time + call.timeout
    /\ zombies = max_workers
    /\ Len(call.units) = 2
    /\ \A i \in DOMAIN call.units :
          call.units[i].pc = "cancelled" /\ ~call.units[i].invoked

-----------------------------------------------------------------------------
(* The cleanup sweep *)

\* C29: a sweep removes exactly the entries whose age exceeds ttl and leaves
\* every other entry as it was; and every get on the cache that is swept at
\* arbitrary moments returns what the same get returns on a cache that got
\* the same set, get and clear calls and was never swept.
C29_SweepUnobservable ==
    [][/\ arg' # None /\ arg'.op = "cleanup" =>
             /\ DOMAIN cache' = {k \in DOMAIN cache : Age(cache, k) <= cache_ttl}
             /\ \A k \in DOMAIN cache' : cache'[k] = cache[k]
       /\ arg' # None /\ arg'.op = "get" => res' = prev'.result]_vars

\* A sweep has removed an expired entry, which the never-swept cache still
\* stores, and has kept a live one.
C29_Witness ==
    /\ arg # None /\ arg.op = "cleanup"
    /\ DOMAIN cache # {}
    /\ DOMAIN cache # DOMAIN prev.store
    /\ DOMAIN cache \subseteq DOMAIN prev.store
    /\ \A k \in DOMAIN cache : cache[k] = prev.store[k]

-----------------------------------------------------------------------------
(* The retries of _make_request *)

\* C30 as stated: _make_request never makes more than max_retries HTTP
\* attempts; when it raises it has made exactly max_retries attempts and
\* raises the error "failed after max_retries attempts"; when it returns, the
\* attempt that succeeded was its last.
C30_AsStated ==
    threads # <<>> =>
       /\ threads[1].http <= max_retries
       /\ threads[1].pc = "raised" =>
             /\ threads[1].http = max_retries
             /\ threads[1].error = FailedAfter(threads[1].source)

\* Ozon's _make_request has raised "failed after 5 attempts" after 25 calls
\* of requests.request, each of which raised a RequestException.
C30_Witness ==
    /\ threads # <<>>
    /\ threads[1].source = "ozon"
    /\ threads[1].pc = "raised"
    /\ threads[1].http = max_retries * max_retries
    /\ threads[1].error = FailedAfter("ozon")

-----------------------------------------------------------------------------
(* The retry of a search after a 429 *)

\* C31 as stated: a search that fails with a rate-limit error is tried one
\* more time, and no more: search runs at most twice for one call.
C31_AsStated ==
    threads # <<>> => threads[1].depth <= 2

\* The provider answered 429 to every request: search has called itself
\* until the recursion limit, has made max_retries requests at every level
\* and has ended with the RecursionError.
C31_Witness ==
    /\ threads # <<>>
    /\ threads[1].pc = "raised"
    /\ threads[1].error = Raised("RecursionError")
    /\ threads[1].depth = MaxDepth
    /\ threads[1].http = MaxDepth * max_retries

-----------------------------------------------------------------------------
(* The order of completion *)

SummaryOf(bundle) == IF "raised" \in DOMAIN bundle THEN bundle ELSE bundle.summary

\* The orders in which n units can complete.
Orders(n) == {o \in [1..n -> 1..n] : \A i, j \in 1..n : o[i] = o[j] => i = j}

-----------------------------------------------------------------------------
(* Concurrent searches and the cache *)

RECURSIVE FetchesOf(_)
FetchesOf(S) ==
    IF S = {} THEN 0
    ELSE LET t == CHOOSE x \in S : TRUE
         IN  threads[t].fetches + FetchesOf(S \ {t})

\* C33 as stated: whatever the interleaving of the concurrent searches of
\* one source and query, started on an empty cache with no expiry and no
\* clear, the fetch of the source is invoked at most once.
C33_AsStated == FetchesOf(DOMAIN threads) <= 1

\* C33, amended: a search invokes the fetch only if its own lookup finds no
\* entry; the cache prevents a fetch from the moment the first successful
\* fetch has stored its result, not from the moment it has started.
C33_Amended ==
    [][\A t \in DOMAIN threads \cap DOMAIN threads' :
          threads'[t].fetches > threads[t].fetches => SharedKey \notin DOMAIN cache]_vars

\* Two searches ran concurrently: the first fetched and stored, the second
\* looked the key up after that and was served from the cache; one fetch
\* was invoked.
C33_Witness ==
    /\ DOMAIN threads = Threads
    /\ threads[1].pc = "done" /\ threads[1].calls = 1 /\ ~threads[1].cache_hit
    /\ threads[2].pc = "done" /\ threads[2].calls = 1 /\ threads[2].cache_hit
    /\ FetchesOf(Threads) = 1

-----------------------------------------------------------------------------
(* A source named more than once *)

CountSum(source_results) ==
    SumOver([s \in DOMAIN source_results |-> source_results[s].count],
            DOMAIN source_results)

FailedKeys(source_results) ==
    {s \in DOMAIN source_results : "error" \in DOMAIN source_results[s]}

\* C34 as stated: in every returned bundle total_products is the length of
\* results and the sum of the counts of source_results, and errors has
\* exactly one entry for each key of source_results that carries an error
\* and no other entry, also when a source is named more than once.
C34_AsStated ==
    (arg # None /\ arg.op = "bundle" /\ res # None /\ ErrorOf(res) = None) =>
       /\ res.summary.total_products = Len(res.results)
       /\ res.summary.total_products = CountSum(res.source_results)
       /\ Len(res.errors) = Cardinality(FailedKeys(res.source_results))
       /\ {res.errors[i].source : i \in DOMAIN res.errors}
             = FailedKeys(res.source_results)

\* Wildberries was named twice and both fetches returned its one product:
\* the bundle holds two products and source_results counts one.
C34_Witness ==
    /\ arg # None /\ arg.op = "bundle" /\ res # None
    /\ Len(arg.units) = 2
    /\ arg.units[1].source = "wildberries" /\ arg.units[2].source = "wildberries"
    /\ res.summary.total_products = 2
    /\ Len(res.results) = 2
    /\ CountSum(res.source_results) = 1

-----------------------------------------------------------------------------
(* The frame of a search that bypasses the cache *)

\* A step of the call in flight that leaves it a search with use_cache =
\* false: its start, the end of one of its fetches, its timeout.
BypassingStep == call' # call /\ call'.status # "idle" /\ Bypassing(call')

\* C35 as stated: no step of a search with use_cache = false changes the
\* contents of the cache, whatever fallback_to_cache is.
C35_AsStated == [][BypassingStep => cache' = cache]_vars

\* C35, amended: a search with use_cache = false adds no entry and
\* overwrites no entry; it removes an entry only when it has
\* fallback_to_cache set, and then only an entry older than ttl, which the
\* fallback lookup after a failed fetch evicts.
C35_Amended ==
    [][BypassingStep =>
          /\ DOMAIN cache' \subseteq DOMAIN cache
          /\ \A k \in DOMAIN cache' : cache'[k] = cache[k]
          /\ \A k \in DOMAIN cache \ DOMAIN cache' :
                /\ Age(cache, k) > cache_ttl
                /\ call'.fallback_to_cache]_vars

\* A search of Wildberries with use_cache = false has returned the payload
\* of a live entry, after its fetch failed, and the entry is in the store
\* as it was.
C35_Witness ==
    /\ Bypassing(call) /\ call.status = "returned"
    /\ call.sources = <<"wildberries">>
    /\ call.units[1].fallback /\ call.units[1].cache_hit /\ call.units[1].invoked
    /\ _make_key("wildberries", call.query) \in DOMAIN cache
    /\ cache[_make_key("wildberries", call.query)].timestamp < call.start_time
    /\ cache[_make_key("wildberries", call.query)].data.timestamp
          = call.units[1].timestamp

-----------------------------------------------------------------------------
(* Who writes to the cache *)

\* Unit i of the call in flight ends its fetch successfully in this step.
FetchSucceeds(i) ==
    /\ call.status = "waiting" /\ call'.status # "idle"
    /\ i \in DOMAIN call.units
    /\ call.units[i].pc = "running"
    /\ call'.units[i].pc = "returned" /\ ~call'.units[i].cache_hit

\* Key k holds an entry after the step that it did not hold before it.
Written(k) == k \in DOMAIN cache' /\ (k \notin DOMAIN cache \/ cache'[k] # cache[k])

\* C36: an entry is added or overwritten only in a step in which a fetch of
\* a search with use_cache = true returned, for the key of that fetch and
\* with what the fetch returned; and whatever a unit serves from the cache,
\* on a hit or on a fallback, is what a successful fetch of its source and
\* query returns.
C36_OnlySuccessWrites ==
    [][/\ \A k \in DOMAIN cache' :
             Written(k) =>
                \E i \in DOMAIN call.units :
                   /\ FetchSucceeds(i)
                   /\ call.kind = "search" /\ call.use_cache
                   /\ k = _make_key(call.units[i].source, call.query)
                   /\ cache'[k].data.products = call'.units[i].products
                   /\ cache'[k].data.query = call.query
                   /\ cache'[k].data.source = call.units[i].source
       /\ IsSearch(call') =>
             \A i \in DOMAIN call'.units :
                call'.units[i].cache_hit =>
                   call'.units[i].products
                      \in FetchResults("search", call'.units[i].source, call'.query)]_vars

\* Wildberries was named twice in a search with use_cache = true: the first
\* fetch returned and stored its product, the second fetch raised and its
\* unit served the entry of the first, which is in the store as written.
C36_Witness ==
    /\ IsSearch(call) /\ call.status = "returned" /\ call.use_cache
    /\ call.sources = <<"wildberries", "wildberries">>
    /\ call.units[1].pc = "returned" /\ ~call.units[1].cache_hit
    /\ call.units[2].fallback /\ call.units[2].cache_hit /\ call.units[2].invoked
    /\ call.units[2].products = Listing("wildberries", call.query)
    /\ _make_key("wildberries", call.query) \in DOMAIN cache
    /\ cache[_make_key("wildberries", call.query)].data.timestamp
          = call.units[2].timestamp

-----------------------------------------------------------------------------
(* What a search that timed out leaves in the cache *)

\* C37: after a search that timed out, a search of the same query with
\* use_cache = true, started no more than ttl after a unit of the timed-out
\* call stored its result, serves that source from the cache without
\* invoking its fetch.
C37_EntriesSurviveTimeout ==
    (/\ prev.valid /\ IsSearch(call) /\ call.use_cache
     /\ call.query = prev.query) =>
       \A s \in DOMAIN prev.stored_at :
          (/\ prev.stored_at[s] >= 0
           /\ call.start_time - prev.stored_at[s] <= cache_ttl) =>
             \A i \in DOMAIN call.units :
                call.units[i].source = s =>
                   /\ call.units[i].pc = "returned"
                   /\ call.units[i].cache_hit
                   /\ ~call.units[i].invoked
                   /\ ~call.units[i].fallback
                   /\ call.units[i].products = Listing(s, call.query)

\* A search of Wildberries and Ozon timed out after the Wildberries fetch
\* had returned; the same search, made again, has returned a bundle that
\* reports Wildberries as a cache hit with the timestamp of that fetch.
C37_Witness ==
    /\ prev.valid /\ prev.sources = <<"wildberries", "ozon">>
    /\ prev.stored_at["wildberries"] >= 0
    /\ prev.stored_at["ozon"] = -1
    /\ IsSearch(call) /\ call.status = "returned" /\ call.use_cache
    /\ call.sources = prev.sources /\ call.query = prev.query
    /\ call.units[1].cache_hit /\ ~call.units[1].invoked
    /\ call.units[1].timestamp = prev.stored_at["wildberries"]
    /\ call.bundle.source_results["wildberries"].cache_hit

-----------------------------------------------------------------------------
(* search after close() *)

\* The call in flight is a search made after close() returned.
AfterClose(c) == threads # <<>> /\ threads[1].pc = "outside" /\ IsSearch(c)

\* The store held a live entry for source s when call c started.
LiveFor(c, s) == CacheGet(cache, s, c.query, c.start_time) # None

\* Source s is listed in `errors` of the bundle of c.
ReportedFailed(c, s) ==
    /\ \E e \in DOMAIN c.bundle.errors :
          /\ c.bundle.errors[e].source = s
          /\ c.bundle.errors[e].error = UnitFailed("search", s)
    /\ ~c.bundle.source_results[s].cache_hit

\* Source s is served from the cache in the bundle of c.
ServedFromCache(c, s) ==
    /\ c.bundle.source_results[s].cache_hit
    /\ c.bundle.source_results[s].products = Listing(s, c.query)
    /\ \A e \in DOMAIN c.bundle.errors : c.bundle.errors[e].source # s

\* C38 as stated: a search made after close() invokes no fetch, does not
\* raise and returns a bundle in which every selected source with a live
\* cache entry is served from the cache and every other selected source is
\* listed in errors.
C38_AsStated ==
    AfterClose(call) =>
       /\ call.status = "returned"
       /\ \A i \in DOMAIN call.units : ~call.units[i].invoked
       /\ \A s \in Range(call.sources_to_use) :
             IF LiveFor(call, s) THEN ServedFromCache(call, s)
             ELSE ReportedFailed(call, s)

\* C38, amended: a search made after close() invokes no fetch, does not
\* raise and returns a bundle in which a selected source is served from the
\* cache when it has a live entry and use_cache or fallback_to_cache is
\* set, and is listed in errors otherwise.
C38_Amended ==
    AfterClose(call) =>
       /\ call.status = "returned"
       /\ \A i \in DOMAIN call.units : ~call.units[i].invoked
       /\ \A s \in Range(call.sources_to_use) :
             IF LiveFor(call, s) /\ (call.use_cache \/ call.fallback_to_cache)
             THEN ServedFromCache(call, s)
             ELSE ReportedFailed(call, s)

\* After close() a search of Wildberries and Ozon with use_cache = false
\* and fallback_to_cache = true has returned: Wildberries, which has a live
\* entry, is served from it through the fallback, and Ozon, which has none,
\* is listed in errors.
C38_Witness ==
    /\ AfterClose(call) /\ call.status = "returned"
    /\ ~call.use_cache /\ call.fallback_to_cache
    /\ call.sources = <<"wildberries", "ozon">>
    /\ LiveFor(call, "wildberries") /\ ~LiveFor(call, "ozon")
    /\ call.units[1].fallback /\ ~call.units[1].invoked
    /\ ServedFromCache(call, "wildberries")
    /\ ReportedFailed(call, "ozon")

-----------------------------------------------------------------------------
(* The API-available flag of the Ozon source *)

\* Thread t clears the flag in this step.
Clears(t) ==
    _api_available /\ ~_api_available' /\ threads'[t].pc # threads[t].pc

\* Thread t makes an API probe in this step.
ProbesApi(t) == threads'[t].probes > threads[t].probes

\* C39 as stated: once cleared the flag never returns to true; the search
\* that clears it goes on to web scraping in the same call; and a search
\* that starts when the flag is cleared makes no API probe.
C39_AsStated ==
    [][/\ ~_api_available => ~_api_available'
       /\ \A t \in DOMAIN threads :
             /\ Clears(t) => threads'[t].pc = "scrape"
             /\ ProbesApi(t) => threads[t].began]_vars

\* C39, amended: the search that clears the flag goes on to web scraping
\* in the same call; a search that finds the flag cleared at line 389 goes
\* to web scraping without a probe; and the flag returns to true only when
\* a search that ran at the same time as another one, and had read the
\* flag before it was cleared, gets status 200 from its probe.  With no
\* two searches of the instance in progress at once the flag stays cleared.
C39_Amended ==
    [][/\ \A t \in DOMAIN threads :
             /\ Clears(t) => threads'[t].pc = "scrape"
             /\ (threads[t].pc = "check" /\ ~_api_available
                    /\ threads'[t].pc # threads[t].pc) =>
                   /\ threads'[t].pc = "scrape"
                   /\ threads'[t].probes = threads[t].probes
       /\ (~_api_available /\ _api_available') =>
             \E t \in DOMAIN threads :
                /\ threads[t].pc = "probe" /\ threads'[t].pc = "api"
                /\ threads[t].overlapped]_vars

\* The flag is cleared, and a search that started after it was cleared has
\* ended with web requests only.
C39_Witness ==
    /\ ~_api_available
    /\ \E t \in DOMAIN threads :
          /\ "began" \in DOMAIN threads[t]
          /\ threads[t].pc = "done" /\ threads[t].calls = 2
          /\ ~threads[t].began
          /\ threads[t].probes = 0 /\ threads[t].scrapes >= 1

====
